---- MODULE Spec2Model ----
(***************************************************************************)
(* Model of the escrow bot (src/bot.py): the Escrow and TransactionLog     *)
(* tables and the command handlers that drive an escrow through its        *)
(* lifecycle.  The second implementation (src/main.py) is modelled in a    *)
(* section of its own, under the specification SpecMain.                   *)
(*                                                                         *)
(* Scheduling.  The handlers are coroutines registered on an Application   *)
(* built with the default builder (bot.py:556), which handles one update   *)
(* at a time; and inside each handler there is no `await` between the      *)
(* query that reads the escrow and the commit that writes it (the awaits   *)
(* are the replies, which come after the commit or right before a return). *)
(* So a handler is one atomic step, and "concurrent" calls are calls       *)
(* handled in either order.                                                *)
(*                                                                         *)
(* Text is a sequence of one-character strings, so that strip, lstrip,     *)
(* lower, int() and the amount parser are computed on characters.          *)
(***************************************************************************)
EXTENDS Integers, Sequences, FiniteSets, TLC

VARIABLES
    escrows,    \* table "escrows": escrows[i] is the row with id i
    txlog,      \* table "transaction_logs", in insertion order
    hist,       \* history: hist[i] is the sequence of statuses row i has held
    last        \* the update handled last: command, chat, sender, args, outcome

vars == <<escrows, txlog, hist, last>>

----------------------------------------------------------------------------
(* Bounds *)

MaxEscrows == 1

----------------------------------------------------------------------------
(* Text helpers *)

UpperAlpha == <<"A","B","C","D","E","F","G","H","I","J","K","L","M",
                "N","O","P","Q","R","S","T","U","V","W","X","Y","Z">>

LowerAlpha == <<"a","b","c","d","e","f","g","h","i","j","k","l","m",
                "n","o","p","q","r","s","t","u","v","w","x","y","z">>

DigitChars == <<"0","1","2","3","4","5","6","7","8","9">>

IndexOf(c, alphabet) ==
    IF \E i \in DOMAIN alphabet : alphabet[i] = c
    THEN CHOOSE i \in DOMAIN alphabet : alphabet[i] = c
    ELSE 0

IsDigit(c) == IndexOf(c, DigitChars) > 0

DigitVal(c) == IndexOf(c, DigitChars) - 1

IsLetter(c) == IndexOf(c, UpperAlpha) > 0 \/ IndexOf(c, LowerAlpha) > 0

LowerChar(c) == IF IndexOf(c, UpperAlpha) > 0 THEN LowerAlpha[IndexOf(c, UpperAlpha)] ELSE c

UpperChar(c) == IF IndexOf(c, LowerAlpha) > 0 THEN UpperAlpha[IndexOf(c, LowerAlpha)] ELSE c

\* str.lower()
Lower(s) == [i \in DOMAIN s |-> LowerChar(s[i])]

\* str.upper()
Upper(s) == [i \in DOMAIN s |-> UpperChar(s[i])]

Drop(s, n) == SubSeq(s, n + 1, Len(s))

RECURSIVE LStripChar(_, _)
\* str.lstrip(c) for a single character c
LStripChar(s, c) ==
    IF s # <<>> /\ Head(s) = c THEN LStripChar(Tail(s), c) ELSE s

RECURSIVE RStripChar(_, _)
RStripChar(s, c) ==
    IF s # <<>> /\ s[Len(s)] = c THEN RStripChar(SubSeq(s, 1, Len(s) - 1), c) ELSE s

\* str.strip(): the only white space of the model's texts is the blank
Strip(s) == RStripChar(LStripChar(s, " "), " ")

RECURSIVE JoinBlank(_)
\* " ".join(tokens)
JoinBlank(toks) ==
    IF toks = <<>> THEN <<>>
    ELSE IF Len(toks) = 1 THEN toks[1]
    ELSE toks[1] \o <<" ">> \o JoinBlank(Tail(toks))

RECURSIVE DigitPrefixLen(_)
\* length of the longest prefix of s made of digits
DigitPrefixLen(s) ==
    IF s # <<>> /\ IsDigit(Head(s)) THEN 1 + DigitPrefixLen(Tail(s)) ELSE 0

RECURSIVE DigitsValue(_)
\* value of a sequence of digits
DigitsValue(s) ==
    IF s = <<>> THEN 0 ELSE 10 * DigitsValue(SubSeq(s, 1, Len(s) - 1)) + DigitVal(s[Len(s)])

AllDigits(s) == s # <<>> /\ \A i \in DOMAIN s : IsDigit(s[i])

AllLetters(s) == s # <<>> /\ \A i \in DOMAIN s : IsLetter(s[i])

\* int(token): optional sign, then digits; anything else raises
IntParse(tok) ==
    LET body == IF tok # <<>> /\ tok[1] \in {"+", "-"} THEN Tail(tok) ELSE tok
        neg  == tok # <<>> /\ tok[1] = "-"
    IN  IF AllDigits(body)
        THEN [ok |-> TRUE, val |-> IF neg THEN 0 - DigitsValue(body) ELSE DigitsValue(body)]
        ELSE [ok |-> FALSE, val |-> 0]

----------------------------------------------------------------------------
(* Optional text: a nullable column or an absent Telegram username *)

None == <<"None">>

\* x or ""
OrEmpty(x) == IF x = None THEN <<>> ELSE x

RECURSIVE NatStr(_)
NatStr(n) == IF n < 10 THEN <<DigitChars[n + 1]>> ELSE NatStr(n \div 10) \o <<DigitChars[(n % 10) + 1]>>

\* str(n) for an integer n
Str(n) == IF n < 0 THEN <<"-">> \o NatStr(0 - n) ELSE NatStr(n)

----------------------------------------------------------------------------
(* Decimal amounts.  A finite Decimal is coef / 10^exp; NaN and Infinity   *)
(* are the special values Decimal() also accepts.                          *)

NumericScale == 8

RECURSIVE Pow10(_)
Pow10(n) == IF n = 0 THEN 1 ELSE 10 * Pow10(n - 1)

FirstIndexOfAny(s, cs) ==
    IF \E i \in DOMAIN s : s[i] \in cs
    THEN CHOOSE i \in DOMAIN s : s[i] \in cs /\ \A j \in 1..(i - 1) : s[j] \notin cs
    ELSE 0

\* decimal.Decimal(text): [sign] (digits [. [digits]] | . digits) [E [sign] digits],
\* or [sign] NaN | sNaN | Inf | Infinity in any case; white space around is ignored
Decimal(text) ==
    LET s     == Strip(text)
        signed == s # <<>> /\ s[1] \in {"+", "-"}
        neg   == s # <<>> /\ s[1] = "-"
        body  == IF signed THEN Tail(s) ELSE s
        ePos  == FirstIndexOfAny(body, {"e", "E"})
        mant  == IF ePos = 0 THEN body ELSE SubSeq(body, 1, ePos - 1)
        expo  == IF ePos = 0 THEN [ok |-> TRUE, val |-> 0] ELSE IntParse(Drop(body, ePos))
        nInt  == DigitPrefixLen(mant)
        intp  == SubSeq(mant, 1, nInt)
        after == Drop(mant, nInt)
        dot   == after # <<>> /\ after[1] = "."
        frac  == IF dot THEN Tail(after) ELSE <<>>
        fracOk == IF dot THEN \A i \in DOMAIN frac : IsDigit(frac[i]) ELSE after = <<>>
        digs  == intp \o frac
        mag   == DigitsValue(digs)
    IN  IF Lower(body) \in {<<"n","a","n">>, <<"s","n","a","n">>}
        THEN [ok |-> TRUE, kind |-> "nan", coef |-> 0, exp |-> 0]
        ELSE IF Lower(body) \in {<<"i","n","f">>, <<"i","n","f","i","n","i","t","y">>}
        THEN [ok |-> TRUE, kind |-> "inf", coef |-> IF neg THEN 0 - 1 ELSE 1, exp |-> 0]
        ELSE IF digs # <<>> /\ fracOk /\ expo.ok
        THEN [ok |-> TRUE, kind |-> "num", coef |-> IF neg THEN 0 - mag ELSE mag,
              exp |-> Len(frac) - expo.val]
        ELSE [ok |-> FALSE, kind |-> "num", coef |-> 0, exp |-> 0]

DollarError == "Invalid dollar amount format. Use like $12 or $12.50"

AmountError == "Invalid amount. Use $12 or 12ETB or 12"

\* parse_amount_token(token): [ok, amount, currency] or [ok |-> FALSE, error]
parse_amount_token(token0) ==
    LET token == Strip(token0)
        bad(e) == [ok |-> FALSE, error |-> e,
                   amount |-> [ok |-> FALSE, kind |-> "num", coef |-> 0, exp |-> 0],
                   currency |-> <<>>]
        \* re.match(r"^([0-9]+(?:\.[0-9]+)?)(?:\s*([A-Za-z]+))?$", token)
        nInt  == DigitPrefixLen(token)
        rest1 == Drop(token, nInt)
        nFrac == IF rest1 # <<>> /\ rest1[1] = "." THEN DigitPrefixLen(Tail(rest1)) ELSE 0
        nNum  == IF nFrac > 0 THEN nInt + 1 + nFrac ELSE nInt
        rest  == Drop(token, nNum)
        cur   == LStripChar(rest, " ")
        match == nInt > 0 /\ (rest = <<>> \/ AllLetters(cur))
    IN  IF token # <<>> /\ token[1] = "$"
        THEN LET val == Decimal(Tail(token))
             IN  IF val.ok
                 THEN [ok |-> TRUE, error |-> "", amount |-> val, currency |-> <<"U","S","D">>]
                 ELSE bad(DollarError)
        ELSE IF ~match THEN bad(AmountError)
        ELSE [ok |-> TRUE, error |-> "",
              amount |-> Decimal(SubSeq(token, 1, nNum)),
              currency |-> Upper(cur)]

\* What a Numeric(30, 8) column gives back for a stored Decimal: SQLite has no
\* decimal type, so the value goes in as a float and comes back formatted with
\* 8 decimals.  NaN goes in as NULL.  (The float's 53-bit rounding is not
\* modelled: the model's amounts have few digits.)
ToNumeric(d) ==
    IF d.kind # "num" THEN d
    ELSE IF d.exp <= NumericScale
    THEN [d EXCEPT !.coef = d.coef * Pow10(NumericScale - d.exp), !.exp = NumericScale]
    ELSE LET p   == Pow10(d.exp - NumericScale)
             mag == IF d.coef < 0 THEN 0 - d.coef ELSE d.coef
             q   == mag \div p
             r   == mag % p
             up  == 2 * r > p \/ (2 * r = p /\ q % 2 = 1)
             m   == IF up THEN q + 1 ELSE q
         IN  [d EXCEPT !.coef = IF d.coef < 0 THEN 0 - m ELSE m, !.exp = NumericScale]

----------------------------------------------------------------------------
(* Configuration (the environment read at import) and the senders, chats   *)
(* and arguments the updates are drawn from                                *)

\* ADMIN_IDS: two configured admins; the first one also sends commands
ADMIN_IDS == <<3, 5>>

alice == [id |-> 1, username |-> <<"A">>]

bob == [id |-> 2, username |-> <<"b">>]

root == [id |-> 3, username |-> <<"r">>]

\* a sender who has set no Telegram username
anon == [id |-> 4, username |-> None]

Users == {alice, bob, root, anon}

G1 == [id |-> 0 - 7, type |-> "group"]

G2 == [id |-> 0 - 8, type |-> "supergroup"]

\* the private chat of a user with the bot has the user's id
Private(u) == [id |-> u.id, type |-> "private"]

ChatsOf(u) == {G1, G2, Private(u)}

\* the <escrow_id> argument: absent, not a number, or the number of a row that
\* exists or of the first one that does not
IdArgs == { <<>>, << <<"x">> >> } \cup { << Str(i) >> : i \in 1..(MaxEscrows + 1) }

\* the <address_or_info> argument: two different texts
Infos == { <<"0","x","A">>, <<"T","q">> }

\* /payment arguments: /payment <escrow_id> <address_or_info>
PaymentArgs == IdArgs \cup { a \o <<i>> : a \in IdArgs \ {<<>>}, i \in Infos }

Statuses == {"INIT", "PAID", "CONFIRMED", "RECEIVED", "PAYMENT_PROVIDED", "COMPLETED", "DISPUTE"}

\* What the store and Telegram answer to the calls of one handler: whether its
\* first and second sess.commit() go through, whether get_chat works for each
\* admin, whether the message to the group is delivered, whether the first and
\* the second reply of dispute_cmd are, and whether send_admins reaches each admin
NoFaults ==
    [commits |-> <<TRUE, TRUE>>,
     get_chat |-> [k \in DOMAIN ADMIN_IDS |-> TRUE],
     send_message |-> TRUE,
     reply |-> <<TRUE, TRUE>>,
     send_admins |-> [k \in DOMAIN ADMIN_IDS |-> TRUE]]

Envs ==
    [commits : {<<TRUE, TRUE>>, <<TRUE, FALSE>>, <<FALSE, TRUE>>},
     get_chat : [DOMAIN ADMIN_IDS -> BOOLEAN],
     send_message : BOOLEAN,
     reply : {<<TRUE, TRUE>>, <<FALSE, TRUE>>, <<FALSE, FALSE>>},
     send_admins : [DOMAIN ADMIN_IDS -> BOOLEAN]]

\* the answers that matter to a handler with one commit and no lookup
CommitEnvs == {[NoFaults EXCEPT !.commits = c] : c \in {<<TRUE, TRUE>>, <<FALSE, TRUE>>}}

\* ... to payment_cmd: one commit, then the lookups
PaymentEnvs == {[e EXCEPT !.get_chat = g] : e \in CommitEnvs, g \in [DOMAIN ADMIN_IDS -> BOOLEAN]}

\* ... to paid_cmd: two commits, the lookups, the message to the group
PaidEnvs ==
    {e \in Envs : e.reply = NoFaults.reply /\ e.send_admins = NoFaults.send_admins}

\* ... and to dispute_cmd: one commit, the replies, the messages to the admins
DisputeEnvs ==
    {e \in Envs : e.commits[2] /\ e.get_chat = NoFaults.get_chat /\ e.send_message}

----------------------------------------------------------------------------
(* Helpers of the handlers *)

\* mutant: the test is whether any admin is configured, not whether the sender is one
is_admin_configured(user_id) == ADMIN_IDS # <<>>

is_admin(user_id) == \E i \in DOMAIN ADMIN_IDS : ADMIN_IDS[i] = user_id

\* mutant: the lookup is by id alone
find_escrow_unscoped(esc_id, chat) ==
    IF esc_id \in DOMAIN escrows THEN esc_id ELSE 0

\* mutant: the lookup is by conversation alone and gives its first escrow
find_escrow_first(esc_id, chat) ==
    IF \E i \in DOMAIN escrows : escrows[i].group_id = Str(chat.id)
    THEN CHOOSE i \in DOMAIN escrows :
             /\ escrows[i].group_id = Str(chat.id)
             /\ \A j \in 1..(i - 1) : escrows[j].group_id # Str(chat.id)
    ELSE 0

\* sess.query(Escrow).filter_by(id=esc_id, group_id=str(chat.id)).first():
\* the id of the row, 0 when there is none
find_escrow(esc_id, chat) ==
    IF esc_id \in DOMAIN escrows /\ escrows[esc_id].group_id = Str(chat.id) THEN esc_id ELSE 0

\* sess.query(Escrow).filter_by(id=esc_id).first()
find_escrow_by_id(esc_id) ==
    IF esc_id \in DOMAIN escrows THEN esc_id ELSE 0

\* (caller.username or "").lower()
caller_un(caller) == Lower(OrEmpty(caller.username))

\* mutant: the handles are compared as written, without lower()
buyer_or_admin_cased(caller, esc) ==
    ~ (OrEmpty(caller.username) # OrEmpty(esc.buyer_username) /\ ~ is_admin(caller.id))

\* paid_cmd, received_cmd: "allow buyer or admin"
buyer_or_admin(caller, esc) ==
    ~ (caller_un(caller) # Lower(OrEmpty(esc.buyer_username)) /\ ~ is_admin(caller.id))

\* mutant: an admin may submit the payout info for the seller
is_seller_or_admin(caller, esc) ==
    ~ (caller_un(caller) # Lower(OrEmpty(esc.seller_username)) /\ ~ is_admin(caller.id))

\* mutant: the seller's handle is compared as written, without lower()
is_seller_cased(caller, esc) ==
    ~ (OrEmpty(caller.username) # OrEmpty(esc.seller_username))

\* payment_cmd: only the designated seller
is_seller(caller, esc) ==
    ~ (caller_un(caller) # Lower(OrEmpty(esc.seller_username)))

\* mutant: a report is also accepted on an escrow already PAID
paid_status_ok_again(esc) == esc.status \in {"INIT", "PAID"}

\* mutant: the status is not checked at all
paid_status_ok_always(esc) == TRUE

paid_status_ok(esc) == esc.status = "INIT"

\* mutant: a confirmation is also accepted on an escrow already CONFIRMED
confirm_status_ok_again(esc) == esc.status \in {"PAID", "CONFIRMED"}

\* mutant: an admin's confirmation takes a disputed escrow up again
confirm_status_ok_resume(esc) == esc.status \in {"PAID", "DISPUTE"}

confirm_status_ok(esc) == esc.status = "PAID"

\* mutant: the receipt is accepted again after the payout info was given
received_status_ok_back(esc) == esc.status \in {"CONFIRMED", "PAYMENT_PROVIDED"}

\* mutant: the receipt is accepted before the admin's confirmation
received_status_ok_unconfirmed(esc) == esc.status \in {"PAID", "CONFIRMED"}

received_status_ok(esc) == esc.status = "CONFIRMED"

\* mutant: payout info is accepted before the receipt
payment_status_ok_early(esc) == esc.status \in {"CONFIRMED", "RECEIVED"}

\* mutant: payout info is accepted again on an escrow that has it
payment_status_ok_again(esc) == esc.status \in {"RECEIVED", "PAYMENT_PROVIDED"}

payment_status_ok(esc) == esc.status = "RECEIVED"

\* mutant: completion skips the receipt
completed_status_ok_skip(esc) == esc.status \in {"PAYMENT_PROVIDED", "RECEIVED", "CONFIRMED"}

\* mutant: completion is accepted on every status but COMPLETED
completed_status_ok_open(esc) == esc.status # "COMPLETED"

\* mutant: completion requires the payout info
completed_status_ok_provided(esc) == esc.status = "PAYMENT_PROVIDED"

completed_status_ok(esc) == esc.status \in {"PAYMENT_PROVIDED", "RECEIVED"}

\* the outcome of an update, as the reply the sender gets, with the calls the
\* handler made on the way: the results of its sess.commit() calls, its
\* get_chat lookups, and the messages it sent besides the reply
Replied(op, chat, user, args, outcome, commits, lookups, sent) ==
    last' = [op |-> op, chat |-> chat, user |-> user, args |-> args, outcome |-> outcome,
             view |-> <<>>, commits |-> commits, lookups |-> lookups, sent |-> sent]

\* an update answered before any commit
Handled(op, chat, user, args, outcome) ==
    Replied(op, chat, user, args, outcome, <<>>, <<>>, <<>>)

\* get_chat(aid) when it succeeds: the first admin has a username, the other none
AdminChat(aid) == [id |-> aid, username |-> IF aid = root.id THEN root.username ELSE None]

\* the get_chat calls of the mention loop: one for every admin, failed or not
admin_lookups(results) ==
    [k \in DOMAIN ADMIN_IDS |-> [aid |-> ADMIN_IDS[k], ok |-> results[k]]]

\* mutant: an admin whose lookup fails is left out of the mentions
admin_mentions_skip(results) ==
    LET Mention(k) == [label |-> IF AdminChat(ADMIN_IDS[k]).username # None
                                 THEN <<"@">> \o AdminChat(ADMIN_IDS[k]).username
                                 ELSE <<"A","d","m","i","n">>,
                       aid |-> ADMIN_IDS[k]]
        F[n \in 0..Len(ADMIN_IDS)] ==
            IF n = 0 THEN <<>>
            ELSE IF results[n] THEN Append(F[n - 1], Mention(n)) ELSE F[n - 1]
    IN  F[Len(ADMIN_IDS)]

\* admin_mentions: a clickable mention for every admin, labelled @username
\* when get_chat gives one and "Admin" when it gives none or raises
admin_mentions(results) ==
    [k \in DOMAIN ADMIN_IDS |->
        [label |-> IF results[k] /\ AdminChat(ADMIN_IDS[k]).username # None
                   THEN <<"@">> \o AdminChat(ADMIN_IDS[k]).username
                   ELSE <<"A","d","m","i","n">>,
         aid |-> ADMIN_IDS[k]]]

\* send_admins(app, text): a message to every admin, delivered or not; a
\* failure is logged and the loop goes on
send_admins(results) ==
    [k \in DOMAIN ADMIN_IDS |->
        [to |-> Str(ADMIN_IDS[k]), text |-> "Dispute opened for escrow",
         mentions |-> <<>>, ok |-> results[k]]]

\* mutant: the entry has the two handles in each other's place
txn_swapped(esc) ==
    [id |-> Len(txlog) + 1,
     escrow_id |-> esc.id,
     group_id |-> esc.group_id,
     buyer_username |-> esc.seller_username,
     seller_username |-> esc.buyer_username,
     amount |-> ToNumeric(esc.amount),
     currency |-> esc.currency]

\* txn = TransactionLog(escrow_id=esc.id, ...): the entry of an escrow's payment
txn(esc) ==
    [id |-> Len(txlog) + 1,
     escrow_id |-> esc.id,
     group_id |-> esc.group_id,
     buyer_username |-> esc.buyer_username,
     seller_username |-> esc.seller_username,
     amount |-> ToNumeric(esc.amount),
     currency |-> esc.currency]

\* mutant: a COMPLETED row is left alone
SetStatus_guarded(id, new) ==
    IF escrows[id].status = "COMPLETED"
    THEN UNCHANGED <<escrows, hist>>
    ELSE /\ escrows' = [escrows EXCEPT ![id].status = new]
         /\ hist' = [hist EXCEPT ![id] = IF escrows[id].status = new THEN @ ELSE Append(@, new)]

\* mutant: a row that reaches COMPLETED is purged from the table
SetStatus_purge(id, new) ==
    IF new = "COMPLETED"
    THEN /\ escrows' = SubSeq(escrows, 1, id - 1) \o SubSeq(escrows, id + 1, Len(escrows))
         /\ hist' = SubSeq(hist, 1, id - 1) \o SubSeq(hist, id + 1, Len(hist))
    ELSE /\ escrows' = [escrows EXCEPT ![id].status = new]
         /\ hist' = [hist EXCEPT ![id] = IF escrows[id].status = new THEN @ ELSE Append(@, new)]

\* mutant: the update is filtered by the conversation, not by the id
SetStatus_group(id, new) ==
    /\ escrows' = [i \in DOMAIN escrows |->
                      IF escrows[i].group_id = escrows[id].group_id
                      THEN [escrows[i] EXCEPT !.status = new] ELSE escrows[i]]
    /\ hist' = [i \in DOMAIN hist |->
                   IF escrows[i].group_id = escrows[id].group_id /\ escrows[i].status # new
                   THEN Append(hist[i], new) ELSE hist[i]]

\* esc.status = new; sess.commit()
SetStatus(id, new) ==
    /\ escrows' = [escrows EXCEPT ![id].status = new]
    /\ hist' = [hist EXCEPT ![id] = IF escrows[id].status = new THEN @ ELSE Append(@, new)]

----------------------------------------------------------------------------
(* Command handlers *)

\* /escrow @buyer @seller <amount>
escrow_cmd(chat, user, args, env) ==
    LET buyer  == LStripChar(args[1], "@")
        seller == LStripChar(args[2], "@")
        parsed == parse_amount_token(Strip(JoinBlank(Drop(args, 2))))
        esc    == [id |-> Len(escrows) + 1,
                   group_id |-> Str(chat.id),
                   creator_id |-> Str(user.id),
                   buyer_username |-> buyer,
                   buyer_id |-> Str(user.id),
                   seller_username |-> seller,
                   seller_id |-> <<>>,
                   amount |-> ToNumeric(parsed.amount),
                   currency |-> parsed.currency,
                   status |-> "INIT",
                   seller_payment_info |-> None]
    IN  /\ Len(escrows) < MaxEscrows
        /\ IF chat.type \notin {"group", "supergroup"}
           THEN /\ Handled("escrow", chat, user, args, "GroupOnly")
                /\ UNCHANGED <<escrows, txlog, hist>>
           ELSE IF Len(args) < 3
           THEN /\ Handled("escrow", chat, user, args, "InvalidInput")
                /\ UNCHANGED <<escrows, txlog, hist>>
           ELSE IF ~ parsed.ok
           THEN /\ Handled("escrow", chat, user, args, "InvalidInput")
                /\ UNCHANGED <<escrows, txlog, hist>>
           ELSE IF parsed.amount.kind = "nan"
           \* amount is NOT NULL and NaN is stored as NULL: the commit raises
           THEN /\ Replied("escrow", chat, user, args, "Raised", <<FALSE>>, <<>>, <<>>)
                /\ UNCHANGED <<escrows, txlog, hist>>
           ELSE IF ~ env.commits[1]
           THEN /\ Replied("escrow", chat, user, args, "Raised", <<FALSE>>, <<>>, <<>>)
                /\ UNCHANGED <<escrows, txlog, hist>>
           ELSE /\ escrows' = Append(escrows, esc)
                /\ hist' = Append(hist, <<"INIT">>)
                /\ Replied("escrow", chat, user, args, "Success", <<TRUE>>, <<>>, <<>>)
                /\ UNCHANGED txlog

\* /paid <escrow_id>
paid_cmd(chat, user, args, env) ==
    LET arg == IF Len(args) < 1 THEN [ok |-> FALSE, val |-> 0] ELSE IntParse(args[1])
        id  == find_escrow(arg.val, chat)
        esc == escrows[id]
        \* the report to the group, delivered or not, and the reply that it was not
        report(ok) == [to |-> esc.group_id, text |-> "Payment reported",
                       mentions |-> admin_mentions(env.get_chat), ok |-> ok]
        notify_failed == [to |-> Str(chat.id), text |-> "failed to notify admins",
                          mentions |-> <<>>, ok |-> TRUE]
    IN  IF ~ arg.ok
        THEN /\ Handled("paid", chat, user, args, "InvalidInput")
             /\ UNCHANGED <<escrows, txlog, hist>>
        ELSE IF id = 0
        THEN /\ Handled("paid", chat, user, args, "NotFound")
             /\ UNCHANGED <<escrows, txlog, hist>>
        ELSE IF ~ buyer_or_admin(user, esc)
        THEN /\ Handled("paid", chat, user, args, "Forbidden")
             /\ UNCHANGED <<escrows, txlog, hist>>
        ELSE IF ~ paid_status_ok(esc)
        THEN /\ Handled("paid", chat, user, args, "InvalidState")
             /\ UNCHANGED <<escrows, txlog, hist>>
        ELSE IF ~ env.commits[1]
        \* the commit of the status raises: nothing is replied
        THEN /\ Replied("paid", chat, user, args, "Raised", <<FALSE>>, <<>>, <<>>)
             /\ UNCHANGED <<escrows, txlog, hist>>
        ELSE IF ~ env.commits[2]
        \* the status is committed and the commit of the log entry raises
        THEN /\ SetStatus(id, "PAID")
             /\ Replied("paid", chat, user, args, "Raised", <<TRUE, FALSE>>, <<>>, <<>>)
             /\ UNCHANGED txlog
        ELSE /\ SetStatus(id, "PAID")
             /\ txlog' = Append(txlog, txn(esc))
             /\ Replied("paid", chat, user, args, "Success", <<TRUE, TRUE>>,
                        admin_lookups(env.get_chat),
                        IF env.send_message THEN <<report(TRUE)>>
                        ELSE <<report(FALSE), notify_failed>>)

\* /confirm <escrow_id>
confirm_cmd(chat, user, args, env) ==
    LET arg == IF Len(args) < 1 THEN [ok |-> FALSE, val |-> 0] ELSE IntParse(args[1])
        id  == find_escrow(arg.val, chat)
        esc == escrows[id]
    IN  IF chat.type \notin {"group", "supergroup"}
        THEN /\ Handled("confirm", chat, user, args, "GroupOnly")
             /\ UNCHANGED <<escrows, txlog, hist>>
        ELSE IF ~ is_admin(user.id)
        THEN /\ Handled("confirm", chat, user, args, "Forbidden")
             /\ UNCHANGED <<escrows, txlog, hist>>
        ELSE IF ~ arg.ok
        THEN /\ Handled("confirm", chat, user, args, "InvalidInput")
             /\ UNCHANGED <<escrows, txlog, hist>>
        ELSE IF id = 0
        THEN /\ Handled("confirm", chat, user, args, "NotFound")
             /\ UNCHANGED <<escrows, txlog, hist>>
        ELSE IF ~ confirm_status_ok(esc)
        THEN /\ Handled("confirm", chat, user, args, "InvalidState")
             /\ UNCHANGED <<escrows, txlog, hist>>
        ELSE IF ~ env.commits[1]
        THEN /\ Replied("confirm", chat, user, args, "Raised", <<FALSE>>, <<>>, <<>>)
             /\ UNCHANGED <<escrows, txlog, hist>>
        ELSE /\ SetStatus(id, "CONFIRMED")
             /\ Replied("confirm", chat, user, args, "Success", <<TRUE>>, <<>>, <<>>)
             /\ UNCHANGED txlog

\* /received <escrow_id>
received_cmd(chat, user, args, env) ==
    LET arg == IF Len(args) < 1 THEN [ok |-> FALSE, val |-> 0] ELSE IntParse(args[1])
        id  == find_escrow(arg.val, chat)
        esc == escrows[id]
    IN  IF ~ arg.ok
        THEN /\ Handled("received", chat, user, args, "InvalidInput")
             /\ UNCHANGED <<escrows, txlog, hist>>
        ELSE IF id = 0
        THEN /\ Handled("received", chat, user, args, "NotFound")
             /\ UNCHANGED <<escrows, txlog, hist>>
        ELSE IF ~ buyer_or_admin(user, esc)
        THEN /\ Handled("received", chat, user, args, "Forbidden")
             /\ UNCHANGED <<escrows, txlog, hist>>
        ELSE IF ~ received_status_ok(esc)
        THEN /\ Handled("received", chat, user, args, "InvalidState")
             /\ UNCHANGED <<escrows, txlog, hist>>
        ELSE IF ~ env.commits[1]
        THEN /\ Replied("received", chat, user, args, "Raised", <<FALSE>>, <<>>, <<>>)
             /\ UNCHANGED <<escrows, txlog, hist>>
        ELSE /\ SetStatus(id, "RECEIVED")
             /\ Replied("received", chat, user, args, "Success", <<TRUE>>, <<>>, <<>>)
             /\ UNCHANGED txlog

\* /payment <escrow_id> <address_or_info>
payment_cmd(chat, user, args, env) ==
    LET arg  == IF Len(args) < 2 THEN [ok |-> FALSE, val |-> 0] ELSE IntParse(args[1])
        info == Strip(JoinBlank(Tail(args)))
        id   == find_escrow(arg.val, chat)
        esc  == escrows[id]
    IN  IF ~ arg.ok
        THEN /\ Handled("payment", chat, user, args, "InvalidInput")
             /\ UNCHANGED <<escrows, txlog, hist>>
        ELSE IF id = 0
        THEN /\ Handled("payment", chat, user, args, "NotFound")
             /\ UNCHANGED <<escrows, txlog, hist>>
        ELSE IF ~ is_seller(user, esc)
        THEN /\ Handled("payment", chat, user, args, "Forbidden")
             /\ UNCHANGED <<escrows, txlog, hist>>
        ELSE IF ~ payment_status_ok(esc)
        THEN /\ Handled("payment", chat, user, args, "InvalidState")
             /\ UNCHANGED <<escrows, txlog, hist>>
        ELSE IF ~ env.commits[1]
        THEN /\ Replied("payment", chat, user, args, "Raised", <<FALSE>>, <<>>, <<>>)
             /\ UNCHANGED <<escrows, txlog, hist>>
        \* the reply to the group carries the payout info and the mentions
        ELSE /\ escrows' = [escrows EXCEPT ![id].seller_payment_info = info,
                                           ![id].status = "PAYMENT_PROVIDED"]
             /\ hist' = [hist EXCEPT ![id] = Append(@, "PAYMENT_PROVIDED")]
             /\ Replied("payment", chat, user, args, "Success", <<TRUE>>,
                        admin_lookups(env.get_chat),
                        << [to |-> Str(chat.id), text |-> "submitted payout info",
                            mentions |-> admin_mentions(env.get_chat), ok |-> TRUE] >>)
             /\ UNCHANGED txlog

\* mutant: the log entries of an escrow are deleted when it is completed
completed_cmd_purge(chat, user, args, env) ==
    LET arg == IF Len(args) < 1 THEN [ok |-> FALSE, val |-> 0] ELSE IntParse(args[1])
        id  == find_escrow(arg.val, chat)
        esc == escrows[id]
        Other(t) == t.escrow_id # id
    IN  IF ~ is_admin(user.id)
        THEN /\ Handled("completed", chat, user, args, "Forbidden")
             /\ UNCHANGED <<escrows, txlog, hist>>
        ELSE IF ~ arg.ok
        THEN /\ Handled("completed", chat, user, args, "InvalidInput")
             /\ UNCHANGED <<escrows, txlog, hist>>
        ELSE IF id = 0
        THEN /\ Handled("completed", chat, user, args, "NotFound")
             /\ UNCHANGED <<escrows, txlog, hist>>
        ELSE IF ~ completed_status_ok(esc)
        THEN /\ Handled("completed", chat, user, args, "InvalidState")
             /\ UNCHANGED <<escrows, txlog, hist>>
        ELSE IF ~ env.commits[1]
        THEN /\ Replied("completed", chat, user, args, "Raised", <<FALSE>>, <<>>, <<>>)
             /\ UNCHANGED <<escrows, txlog, hist>>
        ELSE /\ SetStatus(id, "COMPLETED")
             /\ Replied("completed", chat, user, args, "Success", <<TRUE>>, <<>>, <<>>)
             /\ txlog' = SelectSeq(txlog, Other)

\* /completed <escrow_id>
completed_cmd(chat, user, args, env) ==
    LET arg == IF Len(args) < 1 THEN [ok |-> FALSE, val |-> 0] ELSE IntParse(args[1])
        id  == find_escrow(arg.val, chat)
        esc == escrows[id]
    IN  IF ~ is_admin(user.id)
        THEN /\ Handled("completed", chat, user, args, "Forbidden")
             /\ UNCHANGED <<escrows, txlog, hist>>
        ELSE IF ~ arg.ok
        THEN /\ Handled("completed", chat, user, args, "InvalidInput")
             /\ UNCHANGED <<escrows, txlog, hist>>
        ELSE IF id = 0
        THEN /\ Handled("completed", chat, user, args, "NotFound")
             /\ UNCHANGED <<escrows, txlog, hist>>
        ELSE IF ~ completed_status_ok(esc)
        THEN /\ Handled("completed", chat, user, args, "InvalidState")
             /\ UNCHANGED <<escrows, txlog, hist>>
        ELSE IF ~ env.commits[1]
        THEN /\ Replied("completed", chat, user, args, "Raised", <<FALSE>>, <<>>, <<>>)
             /\ UNCHANGED <<escrows, txlog, hist>>
        ELSE /\ SetStatus(id, "COMPLETED")
             /\ Replied("completed", chat, user, args, "Success", <<TRUE>>, <<>>, <<>>)
             /\ UNCHANGED txlog

\* mutant: /status looks the escrow up in the sender's conversation only
status_cmd_scoped(chat, user, args) ==
    LET arg == IF Len(args) < 1 THEN [ok |-> FALSE, val |-> 0] ELSE IntParse(args[1])
        id  == find_escrow(arg.val, chat)
        esc == escrows[id]
        shown == [id |-> esc.id, group_id |-> esc.group_id,
                  buyer_username |-> esc.buyer_username,
                  seller_username |-> esc.seller_username,
                  amount |-> esc.amount, currency |-> OrEmpty(esc.currency),
                  status |-> esc.status,
                  seller_payment_info |->
                      IF OrEmpty(esc.seller_payment_info) = <<>>
                      THEN <<"N","/","A">> ELSE esc.seller_payment_info]
    IN  /\ UNCHANGED <<escrows, txlog, hist>>
        /\ IF ~ arg.ok
           THEN Handled("status", chat, user, args, "InvalidInput")
           ELSE IF id = 0
           THEN Handled("status", chat, user, args, "NotFound")
           ELSE last' = [op |-> "status", chat |-> chat, user |-> user, args |-> args,
                         outcome |-> "Success", view |-> <<shown>>,
                         commits |-> <<>>, lookups |-> <<>>, sent |-> <<>>]

\* /status <escrow_id>: the reply shows the row
status_cmd(chat, user, args) ==
    LET arg == IF Len(args) < 1 THEN [ok |-> FALSE, val |-> 0] ELSE IntParse(args[1])
        id  == find_escrow_by_id(arg.val)
        esc == escrows[id]
        shown == [id |-> esc.id, group_id |-> esc.group_id,
                  buyer_username |-> esc.buyer_username,
                  seller_username |-> esc.seller_username,
                  amount |-> esc.amount, currency |-> OrEmpty(esc.currency),
                  status |-> esc.status,
                  seller_payment_info |->
                      IF OrEmpty(esc.seller_payment_info) = <<>>
                      THEN <<"N","/","A">> ELSE esc.seller_payment_info]
    IN  /\ UNCHANGED <<escrows, txlog, hist>>
        /\ IF ~ arg.ok
           THEN Handled("status", chat, user, args, "InvalidInput")
           ELSE IF id = 0
           THEN Handled("status", chat, user, args, "NotFound")
           ELSE last' = [op |-> "status", chat |-> chat, user |-> user, args |-> args,
                         outcome |-> "Success", view |-> <<shown>>,
                         commits |-> <<>>, lookups |-> <<>>, sent |-> <<>>]

\* /dispute <escrow_id>
dispute_cmd(chat, user, args, env) ==
    LET arg == IF Len(args) < 1 THEN [ok |-> FALSE, val |-> 0] ELSE IntParse(args[1])
        id  == find_escrow_by_id(arg.val)
        \* the two replies, as attempts that were not delivered
        intervene == [to |-> Str(chat.id), text |-> "Dispute opened, please intervene",
                      mentions |-> <<>>, ok |-> FALSE]
        contact == [to |-> Str(chat.id), text |-> "Dispute opened, please contact admins",
                    mentions |-> <<>>, ok |-> FALSE]
    IN  IF ~ arg.ok
        THEN /\ Handled("dispute", chat, user, args, "InvalidInput")
             /\ UNCHANGED <<escrows, txlog, hist>>
        ELSE IF id = 0
        THEN /\ Handled("dispute", chat, user, args, "NotFound")
             /\ UNCHANGED <<escrows, txlog, hist>>
        ELSE IF ~ env.commits[1]
        THEN /\ Replied("dispute", chat, user, args, "Raised", <<FALSE>>, <<>>, <<>>)
             /\ UNCHANGED <<escrows, txlog, hist>>
        ELSE IF env.reply[1]
        \* the reply that names the arbitration contact, then the admins
        THEN /\ SetStatus(id, "DISPUTE")
             /\ Replied("dispute", chat, user, args, "Success", <<TRUE>>, <<>>,
                        send_admins(env.send_admins))
             /\ UNCHANGED txlog
        ELSE IF env.reply[2]
        \* that reply raises and the plain one is delivered
        THEN /\ SetStatus(id, "DISPUTE")
             /\ Replied("dispute", chat, user, args, "Success", <<TRUE>>, <<>>,
                        <<intervene>> \o send_admins(env.send_admins))
             /\ UNCHANGED txlog
        \* the plain reply raises too, in the except clause: send_admins is not reached
        ELSE /\ SetStatus(id, "DISPUTE")
             /\ Replied("dispute", chat, user, args, "Raised", <<TRUE>>, <<>>,
                        <<intervene, contact>>)
             /\ UNCHANGED txlog

----------------------------------------------------------------------------
(* The bot: empty tables after create_all, then one update after another.  *)
(* `last` is Idle while the bot waits for an update; a handler runs from   *)
(* there and leaves the update and its outcome in `last` until it returns. *)

Idle == [op |-> "none", chat |-> G1, user |-> root, args |-> <<>>, outcome |-> "none",
         view |-> <<>>, commits |-> <<>>, lookups |-> <<>>, sent |-> <<>>]

\* the /escrow updates: who sends which arguments where
CreateRequests ==
    { [chat |-> G1, user |-> alice, args |-> << <<"@","a">>, <<"@","B">>, <<"$","1","2">> >>],
      [chat |-> G2, user |-> bob, args |-> << <<"@","a">>, <<"@","B">>, <<"$","1","2">> >>],
      [chat |-> Private(alice), user |-> alice,
       args |-> << <<"@","a">>, <<"@","B">>, <<"$","1","2">> >>],
      [chat |-> G1, user |-> anon, args |-> << <<"@","a">>, <<"@","B">> >>],
      [chat |-> G2, user |-> root, args |-> << <<"@","a">>, <<"@","B">>, <<"x">> >>] }

Init ==
    /\ escrows = <<>>
    /\ txlog = <<>>
    /\ hist = <<>>
    /\ last = Idle

\* the handler has returned; the bot waits for the next update
Returned ==
    /\ last # Idle
    /\ last' = Idle
    /\ UNCHANGED <<escrows, txlog, hist>>

Next ==
    \/ \E r \in CreateRequests : last = Idle /\ escrow_cmd(r.chat, r.user, r.args, NoFaults)
    \/ \E user \in Users : \E chat \in ChatsOf(user) : \E args \in IdArgs :
          last = Idle /\ paid_cmd(chat, user, args, NoFaults)
    \/ \E user \in Users : \E chat \in ChatsOf(user) : \E args \in IdArgs :
          last = Idle /\ confirm_cmd(chat, user, args, NoFaults)
    \/ \E user \in Users : \E chat \in ChatsOf(user) : \E args \in IdArgs :
          last = Idle /\ received_cmd(chat, user, args, NoFaults)
    \/ \E user \in Users : \E chat \in ChatsOf(user) : \E args \in PaymentArgs :
          last = Idle /\ payment_cmd(chat, user, args, NoFaults)
    \/ \E user \in Users : \E chat \in ChatsOf(user) : \E args \in IdArgs :
          last = Idle /\ completed_cmd(chat, user, args, NoFaults)
    \/ \E user \in Users : \E chat \in ChatsOf(user) : \E args \in IdArgs :
          last = Idle /\ status_cmd(chat, user, args)
    \/ \E user \in Users : \E chat \in ChatsOf(user) : \E args \in IdArgs :
          last = Idle /\ dispute_cmd(chat, user, args, NoFaults)
    \/ Returned

Spec == Init /\ [][Next]_vars

----------------------------------------------------------------------------
(* The bot with a store and a Telegram that may fail: every commit may     *)
(* raise, get_chat may raise for any admin, and the message to the group,  *)
(* the replies of /dispute and the messages to the admins may not be       *)
(* delivered.                                                              *)

NextFaults ==
    \/ \E r \in CreateRequests : \E env \in CommitEnvs :
          last = Idle /\ escrow_cmd(r.chat, r.user, r.args, env)
    \/ \E user \in Users : \E chat \in ChatsOf(user) : \E args \in IdArgs : \E env \in PaidEnvs :
          last = Idle /\ paid_cmd(chat, user, args, env)
    \/ \E user \in Users : \E chat \in ChatsOf(user) : \E args \in IdArgs : \E env \in CommitEnvs :
          last = Idle /\ confirm_cmd(chat, user, args, env)
    \/ \E user \in Users : \E chat \in ChatsOf(user) : \E args \in IdArgs : \E env \in CommitEnvs :
          last = Idle /\ received_cmd(chat, user, args, env)
    \/ \E user \in Users : \E chat \in ChatsOf(user) : \E args \in PaymentArgs : \E env \in PaymentEnvs :
          last = Idle /\ payment_cmd(chat, user, args, env)
    \/ \E user \in Users : \E chat \in ChatsOf(user) : \E args \in IdArgs : \E env \in CommitEnvs :
          last = Idle /\ completed_cmd(chat, user, args, env)
    \/ \E user \in Users : \E chat \in ChatsOf(user) : \E args \in IdArgs :
          last = Idle /\ status_cmd(chat, user, args)
    \/ \E user \in Users : \E chat \in ChatsOf(user) : \E args \in IdArgs : \E env \in DisputeEnvs :
          last = Idle /\ dispute_cmd(chat, user, args, env)
    \/ Returned

SpecFaults == Init /\ [][NextFaults]_vars

----------------------------------------------------------------------------
(* The handles: the /escrow updates whose @buyer or @seller argument is    *)
(* the "@" alone, which lstrip("@") leaves empty, next to one with both    *)
(* handles; then every command.                                            *)

HandleRequests ==
    { [chat |-> G1, user |-> alice, args |-> <<b, s, <<"$","1","2">> >>] :
          b \in { <<"@">>, <<"@","a">> }, s \in { <<"@">>, <<"@","B">> } }

NextHandles ==
    \/ \E r \in HandleRequests : last = Idle /\ escrow_cmd(r.chat, r.user, r.args, NoFaults)
    \/ \E user \in Users : \E chat \in ChatsOf(user) : \E args \in IdArgs :
          last = Idle /\ paid_cmd(chat, user, args, NoFaults)
    \/ \E user \in Users : \E chat \in ChatsOf(user) : \E args \in IdArgs :
          last = Idle /\ confirm_cmd(chat, user, args, NoFaults)
    \/ \E user \in Users : \E chat \in ChatsOf(user) : \E args \in IdArgs :
          last = Idle /\ received_cmd(chat, user, args, NoFaults)
    \/ \E user \in Users : \E chat \in ChatsOf(user) : \E args \in PaymentArgs :
          last = Idle /\ payment_cmd(chat, user, args, NoFaults)
    \/ \E user \in Users : \E chat \in ChatsOf(user) : \E args \in IdArgs :
          last = Idle /\ completed_cmd(chat, user, args, NoFaults)
    \/ \E user \in Users : \E chat \in ChatsOf(user) : \E args \in IdArgs :
          last = Idle /\ status_cmd(chat, user, args)
    \/ \E user \in Users : \E chat \in ChatsOf(user) : \E args \in IdArgs :
          last = Idle /\ dispute_cmd(chat, user, args, NoFaults)
    \/ Returned

SpecHandles == Init /\ [][NextHandles]_vars

----------------------------------------------------------------------------
(* Two escrows: the bot after two /escrow @a @B $12 updates of the same    *)
(* sender in the same group, then every command on either of them.         *)

\* the row escrow_cmd adds for that update as the i-th escrow
PairRow(i) ==
    [id |-> i,
     group_id |-> Str(G1.id),
     creator_id |-> Str(alice.id),
     buyer_username |-> LStripChar(<<"@","a">>, "@"),
     buyer_id |-> Str(alice.id),
     seller_username |-> LStripChar(<<"@","B">>, "@"),
     seller_id |-> <<>>,
     amount |-> ToNumeric(parse_amount_token(<<"$","1","2">>).amount),
     currency |-> parse_amount_token(<<"$","1","2">>).currency,
     status |-> "INIT",
     seller_payment_info |-> None]

InitPair ==
    /\ escrows = <<PairRow(1), PairRow(2)>>
    /\ txlog = <<>>
    /\ hist = << <<"INIT">>, <<"INIT">> >>
    /\ last = Idle

\* the ids of the two escrows, a number that names none, and no number
PairArgs == { << Str(i) >> : i \in 1..3 } \cup { << <<"x">> >> }

PairPaymentArgs == PairArgs \cup { a \o <<i>> : a \in PairArgs, i \in Infos }

NextPair ==
    \/ \E user \in Users : \E chat \in ChatsOf(user) : \E args \in PairArgs :
          last = Idle /\ paid_cmd(chat, user, args, NoFaults)
    \/ \E user \in Users : \E chat \in ChatsOf(user) : \E args \in PairArgs :
          last = Idle /\ confirm_cmd(chat, user, args, NoFaults)
    \/ \E user \in Users : \E chat \in ChatsOf(user) : \E args \in PairArgs :
          last = Idle /\ received_cmd(chat, user, args, NoFaults)
    \/ \E user \in Users : \E chat \in ChatsOf(user) : \E args \in PairPaymentArgs :
          last = Idle /\ payment_cmd(chat, user, args, NoFaults)
    \/ \E user \in Users : \E chat \in ChatsOf(user) : \E args \in PairArgs :
          last = Idle /\ completed_cmd(chat, user, args, NoFaults)
    \/ \E user \in Users : \E chat \in ChatsOf(user) : \E args \in PairArgs :
          last = Idle /\ status_cmd(chat, user, args)
    \/ \E user \in Users : \E chat \in ChatsOf(user) : \E args \in PairArgs :
          last = Idle /\ dispute_cmd(chat, user, args, NoFaults)
    \/ Returned

SpecPair == InitPair /\ [][NextPair]_vars

----------------------------------------------------------------------------
(* The amounts: the /escrow updates with every form of the <amount>        *)
(* argument, and /status to read the rows back.                            *)

\* args[2:] of /escrow: '$'-prefixed and plain tokens, with and without a
\* currency, with more decimals than the column keeps, zero, negative, the
\* special values of Decimal, and text that is no amount
AmountArgs ==
    { << <<"$", "1", "2">> >>,
      << <<"1", "2", ".", "5", "0">> >>,
      << <<"$", "1", "2", ".", "5", "0">> >>,
      << <<"1", "2", ".", "5", "0">>, <<"u", "s", "d">> >>,
      << <<"1", "2", "e", "t", "b">> >>,
      << <<"0", ".", "0", "0", "0", "0", "0", "0", "0", "0", "1">> >>,
      << <<"$", "0">> >>,
      << <<"0">> >>,
      << <<"$", "-", "5">> >>,
      << <<"-", "5">> >>,
      << <<"$", "N", "a", "N">> >>,
      << <<"$", "I", "n", "f">> >>,
      << <<"x">> >>,
      << <<"$">> >> }

AmountRequests ==
    { [chat |-> c, user |-> alice, args |-> << <<"@","a">>, <<"@","B">> >> \o a] :
          c \in {G1, Private(alice)}, a \in AmountArgs }

NextAmounts ==
    \/ \E r \in AmountRequests : last = Idle /\ escrow_cmd(r.chat, r.user, r.args, NoFaults)
    \/ \E user \in Users : \E chat \in ChatsOf(user) : \E args \in IdArgs :
          last = Idle /\ status_cmd(chat, user, args)
    \/ Returned

SpecAmounts == Init /\ [][NextAmounts]_vars

----------------------------------------------------------------------------
(* The second implementation (src/main.py): one sqlite table "escrows", a  *)
(* /create command and inline-keyboard callbacks.  Under SpecMain the      *)
(* variable escrows holds that table, hist[i] is the set of state changes  *)
(* <<from, to>> the UPDATEs have made to row i, and txlog stays empty (the *)
(* program has no log table).                                              *)
(*                                                                         *)
(* Scheduling is as in bot.py: the Application is built with the default   *)
(* builder (main.py:509), and no handler awaits between its database       *)
(* calls, each of which commits at once; so a handler is one atomic step.  *)
(*                                                                         *)
(* Callback data is whatever text the client sends: Telegram does not      *)
(* promise that the message pressed carries a button with that data, and   *)
(* no keyboard of main.py carries a release_<id> button at all.            *)

\* class EscrowState(Enum): member name |-> value
EscrowState ==
    [CREATED |-> "created", BUYER_PAID |-> "buyer_paid",
     SELLER_CONFIRMED |-> "seller_confirmed", COMPLETED |-> "completed",
     CANCELLED |-> "cancelled", DISPUTED |-> "disputed"]

\* the keys of TOKENS
TOKENS == { <<"M","A","T","I","C">>, <<"U","S","D","T">> }

testnet == <<"t","e","s","t","n","e","t">>

mainnet == <<"m","a","i","n","n","e","t">>

\* the accounts made at import: the testnet connection and key are there,
\* the mainnet ones are not, so that account_main stays None
account_test == [made |-> TRUE, address |-> <<"0","x","7">>]

account_main == [made |-> FALSE, address |-> None]

\* float(text): the numbers Decimal() reads, but for the signalling NaN.
\* The value is kept as coef / 10^exp without trailing zeros, so that equal
\* numbers are equal values (the 53-bit rounding is not modelled).
float(text) ==
    LET s    == Strip(text)
        body == IF s # <<>> /\ s[1] \in {"+", "-"} THEN Tail(s) ELSE s
        d    == Decimal(text)
        RECURSIVE Normal(_, _)
        Normal(c, e) == IF c = 0 THEN [coef |-> 0, exp |-> 0]
                        ELSE IF c % 10 = 0 THEN Normal(c \div 10, e - 1)
                        ELSE [coef |-> c, exp |-> e]
        n    == Normal(d.coef, d.exp)
    IN  IF Lower(body) = <<"s","n","a","n">> THEN [d EXCEPT !.ok = FALSE, !.kind = "num"]
        ELSE IF d.ok /\ d.kind = "num" THEN [d EXCEPT !.coef = n.coef, !.exp = n.exp]
        ELSE d

\* str.startswith(prefix)
StartsWith(s, prefix) == Len(s) >= Len(prefix) /\ SubSeq(s, 1, Len(prefix)) = prefix

RECURSIVE Split(_, _)
\* str.split(c) for a single character c
Split(s, c) ==
    LET i == FirstIndexOfAny(s, {c})
    IN  IF i = 0 THEN <<s>> ELSE <<SubSeq(s, 1, i - 1)>> \o Split(Drop(s, i), c)

\* the callback data button() tells apart
CREATE_ESCROW == <<"c","r","e","a","t","e","_","e","s","c","r","o","w">>

MY_ESCROWS == <<"m","y","_","e","s","c","r","o","w","s">>

HELP == <<"h","e","l","p">>

BACK_TO_MAIN == <<"b","a","c","k","_","t","o","_","m","a","i","n">>

ESCROW_DETAIL_ == <<"e","s","c","r","o","w","_","d","e","t","a","i","l","_">>

RELEASE_ == <<"r","e","l","e","a","s","e","_">>

DISPUTE_ == <<"d","i","s","p","u","t","e","_">>

\* the outcome of an update of main.py: the handler that ran, the text it left
\* and the keyboard or list under it
Answered(op, chat, user, args, outcome, view) ==
    last' = [op |-> op, chat |-> chat, user |-> user, args |-> args, outcome |-> outcome,
             view |-> view, commits |-> <<>>, lookups |-> <<>>, sent |-> <<>>]

\* EscrowDB.create_escrow followed by EscrowDB.set_deposit_address: the new
\* row, with the id the table gives it (the two timestamps are left out)
create_escrow(chat_id, buyer_id, seller_username, amount, token, network, address) ==
    /\ escrows' = Append(escrows,
          [id |-> Len(escrows) + 1, chat_id |-> chat_id, buyer_id |-> buyer_id,
           seller_username |-> seller_username, amount |-> amount, token |-> token,
           network |-> network, state |-> EscrowState.CREATED,
           deposit_address |-> address, buyer_address |-> None])
    /\ hist' = Append(hist, {})

\* EscrowDB.get_escrow: what fetchone() finds, the row with that id or none
get_escrow(escrow_id) ==
    IF escrow_id \in DOMAIN escrows THEN <<escrows[escrow_id]>> ELSE <<>>

\* an UPDATE that runs only while the escrow is still open
update_escrow_state_open(escrow_id, state) ==
    IF escrow_id \in DOMAIN escrows /\ escrows[escrow_id].state = EscrowState.CREATED
    THEN /\ escrows' = [escrows EXCEPT ![escrow_id].state = state]
         /\ hist' = [hist EXCEPT ![escrow_id] = @ \cup {<<escrows[escrow_id].state, state>>}]
    ELSE UNCHANGED <<escrows, hist>>

\* EscrowDB.update_escrow_state: UPDATE escrows SET state = ? WHERE id = ?,
\* which changes no row when no row has that id
update_escrow_state(escrow_id, state) ==
    IF escrow_id \in DOMAIN escrows
    THEN /\ escrows' = [escrows EXCEPT ![escrow_id].state = state]
         /\ hist' = [hist EXCEPT ![escrow_id] = @ \cup {<<escrows[escrow_id].state, state>>}]
    ELSE UNCHANGED <<escrows, hist>>

RECURSIVE get_user_escrows(_, _)
\* EscrowDB.get_user_escrows: the ids of the rows of that buyer among the
\* first n, newest first
get_user_escrows(user_id, n) ==
    IF n = 0 THEN <<>>
    ELSE IF escrows[n].buyer_id = user_id
         THEN <<n>> \o get_user_escrows(user_id, n - 1)
         ELSE get_user_escrows(user_id, n - 1)

\* /start
start(chat, user) ==
    /\ Answered("start", chat, user, <<>>, "Menu", <<CREATE_ESCROW, MY_ESCROWS, HELP>>)
    /\ UNCHANGED <<escrows, txlog, hist>>

\* /status: connected is what w3_test.is_connected() answers; w3_main is None
status_command(chat, user, connected) ==
    /\ Answered("status", chat, user, <<>>, "Status",
                <<IF connected THEN account_test.address ELSE None, None>>)
    /\ UNCHANGED <<escrows, txlog, hist>>

\* /create <seller> <amount> <token> <network>
create_escrow_command(chat, user, args) ==
    LET amount  == float(args[2])
        token   == Upper(args[3])
        network == Lower(args[4])
        account == IF network = testnet THEN account_test ELSE account_main
        said(outcome) == /\ Answered("create", chat, user, args, outcome, <<>>)
                         /\ UNCHANGED <<escrows, txlog, hist>>
    IN  /\ Len(escrows) < MaxEscrows
        /\ IF Len(args) < 4 THEN said("InvalidFormat")
           ELSE IF ~ amount.ok THEN said("InvalidAmount")
           ELSE IF token \notin TOKENS THEN said("InvalidToken")
           ELSE IF network \notin {testnet, mainnet} THEN said("InvalidNetwork")
           ELSE IF network = testnet /\ ~ account_test.made THEN said("TestnetUnavailable")
           ELSE IF network = mainnet /\ ~ account_main.made THEN said("MainnetUnavailable")
           ELSE /\ create_escrow(chat.id, user.id, args[1], amount, token, network,
                                 account.address)
                /\ Answered("create", chat, user, args, "Created",
                            <<ESCROW_DETAIL_ \o Str(Len(escrows) + 1), CREATE_ESCROW>>)
                /\ UNCHANGED txlog

\* the callbacks that only redraw the message
create_escrow_start(chat, user, data) ==
    /\ Answered("create_escrow_start", chat, user, <<data>>, "HowToCreate", <<>>)
    /\ UNCHANGED <<escrows, txlog, hist>>

show_my_escrows(chat, user, data) ==
    LET mine == get_user_escrows(user.id, Len(escrows))
    IN  /\ IF mine = <<>>
           THEN Answered("show_my_escrows", chat, user, <<data>>, "NoEscrows", <<CREATE_ESCROW>>)
           ELSE Answered("show_my_escrows", chat, user, <<data>>, "YourEscrows",
                         [k \in DOMAIN mine |-> ESCROW_DETAIL_ \o Str(mine[k])]
                             \o <<BACK_TO_MAIN>>)
        /\ UNCHANGED <<escrows, txlog, hist>>

show_help(chat, user, data) ==
    /\ Answered("show_help", chat, user, <<data>>, "Help", <<>>)
    /\ UNCHANGED <<escrows, txlog, hist>>

back_to_main(chat, user, data) ==
    /\ Answered("back_to_main", chat, user, <<data>>, "Menu",
                <<CREATE_ESCROW, MY_ESCROWS, HELP>>)
    /\ UNCHANGED <<escrows, txlog, hist>>

\* the detail view: the Report Issue button is there while the state is created
show_escrow_detail(chat, user, data, escrow_id) ==
    LET escrow == get_escrow(escrow_id)
        state  == escrow[1].state
    IN  /\ IF escrow = <<>>
           THEN Answered("show_escrow_detail", chat, user, <<data>>, "NotFound", <<>>)
           ELSE Answered("show_escrow_detail", chat, user, <<data>>, state,
                         IF state = EscrowState.CREATED
                         THEN <<DISPUTE_ \o Str(escrow_id), MY_ESCROWS>>
                         ELSE <<MY_ESCROWS>>)
        /\ UNCHANGED <<escrows, txlog, hist>>

release_escrow(chat, user, data, escrow_id) ==
    /\ update_escrow_state(escrow_id, EscrowState.COMPLETED)
    /\ Answered("release_escrow", chat, user, <<data>>, "Completed", <<>>)
    /\ UNCHANGED txlog

start_dispute(chat, user, data, escrow_id) ==
    /\ update_escrow_state(escrow_id, EscrowState.DISPUTED)
    /\ Answered("start_dispute", chat, user, <<data>>, "DisputeOpened", <<>>)
    /\ UNCHANGED txlog

\* the callback handler: it answers the query and runs what the data names;
\* int() of the id part raises out of the handler when that is no number
button(chat, user, data) ==
    LET parts == Split(data, "_")
        raised == /\ Answered("button", chat, user, <<data>>, "Raised", <<>>)
                  /\ UNCHANGED <<escrows, txlog, hist>>
    IN  IF data = CREATE_ESCROW THEN create_escrow_start(chat, user, data)
        ELSE IF data = MY_ESCROWS THEN show_my_escrows(chat, user, data)
        ELSE IF data = HELP THEN show_help(chat, user, data)
        ELSE IF data = BACK_TO_MAIN THEN back_to_main(chat, user, data)
        ELSE IF StartsWith(data, ESCROW_DETAIL_)
        THEN IF IntParse(parts[3]).ok
             THEN show_escrow_detail(chat, user, data, IntParse(parts[3]).val)
             ELSE raised
        ELSE IF StartsWith(data, RELEASE_)
        THEN IF IntParse(parts[2]).ok
             THEN release_escrow(chat, user, data, IntParse(parts[2]).val)
             ELSE raised
        ELSE IF StartsWith(data, DISPUTE_)
        THEN IF IntParse(parts[2]).ok
             THEN start_dispute(chat, user, data, IntParse(parts[2]).val)
             ELSE raised
        ELSE /\ Answered("button", chat, user, <<data>>, "Answered", <<>>)
             /\ UNCHANGED <<escrows, txlog, hist>>

\* the /create updates: who sends which arguments where
MainCreateRequests ==
    { [chat |-> G1, user |-> alice,
       args |-> << <<"@","b">>, <<"0",".","1","0">>, <<"m","a","t","i","c">>, <<"T","e","s","t","n","e","t">> >>],
      [chat |-> Private(bob), user |-> bob,
       args |-> << <<"@","A">>, <<"1","e","1">>, <<"U","S","D","T">>, testnet, <<"x">> >>],
      [chat |-> G1, user |-> anon, args |-> << <<"@","b">>, <<"1">>, <<"U","S","D","T">> >>],
      [chat |-> G1, user |-> anon, args |-> << <<"@","b">>, <<"x">>, <<"E","T","H">>, testnet >>],
      [chat |-> G2, user |-> root, args |-> << <<"@","b">>, <<"1">>, <<"E","T","H">>, testnet >>],
      [chat |-> G2, user |-> root, args |-> << <<"@","b">>, <<"1">>, <<"U","S","D","T">>, <<"d","e","v">> >>],
      [chat |-> G2, user |-> root, args |-> << <<"@","b">>, <<"1">>, <<"U","S","D","T">>, mainnet >>] }

\* the callback data the clients send: every button the keyboards carry, the
\* three id-carrying kinds for the ids in use, for one more and for no
\* number, and a text button() does not know
CallbackData ==
    {CREATE_ESCROW, MY_ESCROWS, HELP, BACK_TO_MAIN, <<"x">>}
    \cup { p \o Str(i) : p \in {ESCROW_DETAIL_, RELEASE_, DISPUTE_}, i \in 1..(MaxEscrows + 1) }
    \cup { ESCROW_DETAIL_ \o <<"x">>, RELEASE_, DISPUTE_ \o <<"_","1">> }

\* the state once the module is loaded: db = EscrowDB() on a fresh escrow.db.
\* (As written the load stops at main.py:21, which reads the name TOKEN that
\* is never assigned; the handlers are modelled as they run once that line
\* reads BOT_TOKEN.)
InitMain ==
    /\ escrows = <<>>
    /\ txlog = <<>>
    /\ hist = <<>>
    /\ last = Idle

NextMain ==
    \/ \E user \in Users : \E chat \in ChatsOf(user) : last = Idle /\ start(chat, user)
    \/ \E r \in MainCreateRequests :
          last = Idle /\ create_escrow_command(r.chat, r.user, r.args)
    \/ \E user \in Users : \E chat \in ChatsOf(user) : \E connected \in BOOLEAN :
          last = Idle /\ status_command(chat, user, connected)
    \/ \E user \in Users : \E chat \in ChatsOf(user) : \E data \in CallbackData :
          last = Idle /\ button(chat, user, data)
    \/ Returned

SpecMain == InitMain /\ [][NextMain]_vars

----------------------------------------------------------------------------
(* Vocabulary of the properties.  A step from Idle handles one update: the *)
(* update and its outcome are last', the tables before it are unprimed.    *)

Called(op) == last = Idle /\ last'.op = op

\* the escrow id an update names: 0 when the argument is absent or no number
ArgId(r) == IF r.args # <<>> /\ IntParse(r.args[1]).ok THEN IntParse(r.args[1]).val ELSE 0

\* the update names a row that exists
NamesEscrow(r) == ArgId(r) \in DOMAIN escrows

\* ... and comes from the conversation the escrow belongs to
InOwnChat(r) == NamesEscrow(r) /\ escrows[ArgId(r)].group_id = Str(r.chat.id)

\* /payment needs its second argument, the other commands only the id
WellFormed(r) == IF r.op = "payment" THEN Len(r.args) >= 2 ELSE Len(r.args) >= 1

AdminUser(u) == u.id \in {ADMIN_IDS[k] : k \in DOMAIN ADMIN_IDS}

SameHandle(u, handle) == Lower(OrEmpty(u.username)) = Lower(handle)

\* the role each transition requires of its caller
Authorized(r) ==
    LET e == escrows[ArgId(r)]
    IN  CASE r.op \in {"paid", "received"} -> SameHandle(r.user, e.buyer_username) \/ AdminUser(r.user)
          [] r.op \in {"confirm", "completed"} -> AdminUser(r.user)
          [] r.op = "payment" -> SameHandle(r.user, e.seller_username)
          [] OTHER -> TRUE

\* the statuses each transition starts from, and the status it leads to
Predecessors(op) ==
    CASE op = "paid" -> {"INIT"}
      [] op = "confirm" -> {"PAID"}
      [] op = "received" -> {"CONFIRMED"}
      [] op = "payment" -> {"RECEIVED"}
      [] op = "completed" -> {"PAYMENT_PROVIDED", "RECEIVED"}
      [] OTHER -> {}

Target(op) ==
    CASE op = "paid" -> "PAID"
      [] op = "confirm" -> "CONFIRMED"
      [] op = "received" -> "RECEIVED"
      [] op = "payment" -> "PAYMENT_PROVIDED"
      [] op = "completed" -> "COMPLETED"
      [] OTHER -> "DISPUTE"

Transitions == {"paid", "confirm", "received", "payment", "completed"}

TableEdges ==
    { <<"INIT", "PAID">>, <<"PAID", "CONFIRMED">>, <<"CONFIRMED", "RECEIVED">>,
      <<"RECEIVED", "PAYMENT_PROVIDED">>, <<"PAYMENT_PROVIDED", "COMPLETED">>,
      <<"RECEIVED", "COMPLETED">> }

Chain == <<"INIT", "PAID", "CONFIRMED", "RECEIVED", "PAYMENT_PROVIDED", "COMPLETED">>

Rank(st) == IndexOf(st, Chain)

LogCount(log, i) == Cardinality({k \in DOMAIN log : log[k].escrow_id = i})

Held(i, st) == \E k \in DOMAIN hist[i] : hist[i][k] = st

Times(i, st) == Cardinality({k \in DOMAIN hist[i] : hist[i][k] = st})

RowsUnchanged == escrows' = escrows /\ txlog' = txlog

----------------------------------------------------------------------------
(* C1: the status of every escrow is always one of the seven statuses, a   *)
(* new escrow starts in INIT, and every change of a status is an edge of   *)
(* the lifecycle table or an edge into DISPUTE; the status never moves     *)
(* backwards along the chain INIT .. COMPLETED.                            *)

C1_StatusInEnum == \A i \in DOMAIN escrows : escrows[i].status \in Statuses

C1_EdgeStep ==
    /\ \A i \in DOMAIN escrows' \ DOMAIN escrows : escrows'[i].status = "INIT"
    /\ \A i \in DOMAIN escrows :
          LET old == escrows[i].status
              new == escrows'[i].status
          IN  /\ i \in DOMAIN escrows'
              /\ new # old => <<old, new>> \in TableEdges \/ new = "DISPUTE"
              /\ Rank(old) > 0 /\ Rank(new) > 0 => Rank(new) >= Rank(old)

C1_Lifecycle == [] C1_StatusInEnum /\ [][C1_EdgeStep]_vars

\* an escrow went down the whole chain and was then disputed
C1_Witness ==
    \E i \in DOMAIN escrows :
        hist[i] = <<"INIT", "PAID", "CONFIRMED", "RECEIVED", "PAYMENT_PROVIDED",
                    "COMPLETED", "DISPUTE">>

----------------------------------------------------------------------------
(* C2: of two report-payment calls by authorized callers on an escrow in   *)
(* INIT, in either order, the one handled first succeeds (status PAID, one *)
(* log entry) and the other is rejected with InvalidState and adds no log  *)
(* entry: exactly one success, exactly one TransactionLog entry.           *)

C2_ReportStep ==
    Called("paid") /\ WellFormed(last') /\ InOwnChat(last') /\ Authorized(last') =>
        LET i == ArgId(last')
        IN  /\ escrows[i].status = "INIT" =>
                /\ last'.outcome = "Success"
                /\ escrows'[i].status = "PAID"
                /\ LogCount(txlog, i) = 0
                /\ LogCount(txlog', i) = 1
            /\ Held(i, "PAID") =>
                /\ last'.outcome = "InvalidState"
                /\ RowsUnchanged
                /\ LogCount(txlog', i) = 1

C2_ReportOnce ==
    /\ [][C2_ReportStep]_vars
    /\ [] (\A i \in DOMAIN escrows : Times(i, "PAID") <= 1)

\* a report by the admin is rejected on an escrow that is PAID by an earlier report
C2_Witness ==
    /\ last.op = "paid" /\ last.user = root /\ last.outcome = "InvalidState"
    /\ InOwnChat(last)
    /\ escrows[ArgId(last)].status = "PAID"
    /\ LogCount(txlog, ArgId(last)) = 1

----------------------------------------------------------------------------
(* C3: every escrow has at most one TransactionLog entry, and it has one   *)
(* if and only if it has at some point held PAID or a later status of the  *)
(* chain.                                                                  *)

----------------------------------------------------------------------------
(* C4: for confirm-payment, confirm-receipt, submit-payout and             *)
(* mark-complete, of the authorized callers that attempt the transition on *)
(* an escrow in the predecessor status, the one handled first succeeds and *)
(* applies the transition, and every later one is rejected with            *)
(* InvalidState and changes nothing: the transition is applied once.       *)

C4_TransitionStep ==
    \A op \in Transitions \ {"paid"} :
        Called(op) /\ WellFormed(last') /\ InOwnChat(last') /\ Authorized(last') =>
            LET i == ArgId(last')
            IN  /\ escrows[i].status \in Predecessors(op) /\ ~ Held(i, Target(op)) =>
                    /\ last'.outcome = "Success"
                    /\ escrows'[i].status = Target(op)
                    /\ hist'[i] = Append(hist[i], Target(op))
                /\ Held(i, Target(op)) =>
                    /\ last'.outcome = "InvalidState"
                    /\ RowsUnchanged
                    /\ hist' = hist

C4_TransitionOnce ==
    /\ [][C4_TransitionStep]_vars
    /\ [] (\A i \in DOMAIN escrows : \A op \in Transitions : Times(i, Target(op)) <= 1)

\* a second confirmation by the admin is rejected on the escrow confirmed before
C4_Witness ==
    /\ last.op = "confirm" /\ last.user = root /\ last.outcome = "InvalidState"
    /\ InOwnChat(last)
    /\ escrows[ArgId(last)].status = "CONFIRMED"

----------------------------------------------------------------------------
(* C5 as claimed: once the status of an escrow is COMPLETED or DISPUTE, no *)
(* operation changes it.                                                   *)

C5_TerminalStep ==
    \A i \in DOMAIN escrows :
        escrows[i].status \in {"COMPLETED", "DISPUTE"} => escrows'[i].status = escrows[i].status

C5_Terminal == [][C5_TerminalStep]_vars

(* C5 as amended: DISPUTE is terminal; a COMPLETED escrow changes its      *)
(* status only by a dispute, which sets it to DISPUTE.                     *)

C5_AmendedStep ==
    \A i \in DOMAIN escrows :
        /\ escrows[i].status = "DISPUTE" => escrows'[i].status = "DISPUTE"
        /\ escrows[i].status = "COMPLETED" =>
              \/ escrows'[i].status = "COMPLETED"
              \/ escrows'[i].status = "DISPUTE" /\ Called("dispute") /\ ArgId(last') = i

C5_TerminalButDispute == [][C5_AmendedStep]_vars

\* a completed escrow was disputed, and a later mark-complete by the admin failed
C5_Witness ==
    /\ last.op = "completed" /\ last.user = root /\ last.outcome = "InvalidState"
    /\ InOwnChat(last)
    /\ Held(ArgId(last), "COMPLETED")
    /\ escrows[ArgId(last)].status = "DISPUTE"

----------------------------------------------------------------------------
(* C6 as claimed: confirm-payment by a sender who is no admin is always    *)
(* rejected with Forbidden and changes nothing.                            *)

InGroup(r) == r.chat.type \in {"group", "supergroup"}

C6_ForbiddenStep ==
    Called("confirm") /\ ~ AdminUser(last'.user) =>
        last'.outcome = "Forbidden" /\ RowsUnchanged

C6_NonAdminForbidden == [][C6_ForbiddenStep]_vars

(* C6 as amended: confirm-payment by a sender who is no admin never        *)
(* succeeds and changes nothing, whatever the status and whoever the       *)
(* sender; sent in a group it is rejected with Forbidden, sent in a        *)
(* private chat it is rejected as a group-only command.                    *)

C6_AmendedStep ==
    Called("confirm") /\ ~ AdminUser(last'.user) =>
        /\ RowsUnchanged
        /\ hist' = hist
        /\ last'.outcome = IF InGroup(last') THEN "Forbidden" ELSE "GroupOnly"

C6_NonAdminRejected == [][C6_AmendedStep]_vars

\* the buyer tries to confirm the payment of her own PAID escrow
C6_Witness ==
    /\ last.op = "confirm" /\ last.user = alice /\ last.outcome = "Forbidden"
    /\ InOwnChat(last)
    /\ SameHandle(last.user, escrows[ArgId(last)].buyer_username)
    /\ escrows[ArgId(last)].status = "PAID"

----------------------------------------------------------------------------
(* C7: report-payment and confirm-receipt on an escrow of the caller's     *)
(* conversation are rejected with Forbidden exactly when the caller's      *)
(* handle differs, ignoring case, from the buyer's and the caller is no    *)
(* admin; the rejection changes nothing; the seller (whose handle is not   *)
(* the buyer's) is rejected unless he is an admin.                         *)

C7_BuyerStep ==
    \A op \in {"paid", "received"} :
        Called(op) /\ WellFormed(last') /\ InOwnChat(last') =>
            LET e == escrows[ArgId(last')]
                u == last'.user
            IN  /\ last'.outcome = "Forbidden" <=>
                      ~ SameHandle(u, e.buyer_username) /\ ~ AdminUser(u)
                /\ last'.outcome = "Forbidden" => RowsUnchanged /\ hist' = hist
                /\ SameHandle(u, e.seller_username) /\ ~ SameHandle(u, e.buyer_username)
                      /\ ~ AdminUser(u) => last'.outcome = "Forbidden"

----------------------------------------------------------------------------
(* C8: each of the five transitions, called by an authorized caller on an  *)
(* escrow of the caller's conversation whose status is not the required    *)
(* predecessor, is rejected with InvalidState and leaves the escrow (its   *)
(* status and payout info) and the TransactionLog unchanged.               *)

C8_WrongStatusStep ==
    \A op \in Transitions :
        Called(op) /\ WellFormed(last') /\ InOwnChat(last') /\ Authorized(last')
            /\ escrows[ArgId(last')].status \notin Predecessors(op) =>
                /\ last'.outcome = "InvalidState"
                /\ RowsUnchanged
                /\ hist' = hist

C8_InvalidState == [][C8_WrongStatusStep]_vars

\* the admin confirms a payment the buyer never reported
C8_Witness ==
    /\ last.op = "confirm" /\ last.user = root /\ last.outcome = "InvalidState"
    /\ InOwnChat(last)
    /\ escrows[ArgId(last)].status = "INIT"

----------------------------------------------------------------------------
(* C9 as claimed: each of the five transitions, invoked with the id of an  *)
(* escrow from a conversation other than the escrow's, is rejected with    *)
(* NotFound and changes nothing, whoever calls.                            *)

C9_NotFoundStep ==
    \A op \in Transitions :
        Called(op) /\ WellFormed(last') /\ NamesEscrow(last') /\ ~ InOwnChat(last') =>
            last'.outcome = "NotFound" /\ RowsUnchanged

C9_OtherChatNotFound == [][C9_NotFoundStep]_vars

(* C9 as amended: such a call never succeeds and changes nothing.          *)
(* report-payment, confirm-receipt and submit-payout are rejected with     *)
(* NotFound whoever calls; confirm-payment and mark-complete check the     *)
(* admin role before the lookup, so they are rejected with NotFound for an *)
(* admin and with Forbidden for anyone else (and confirm-payment sent in a *)
(* private chat is rejected as a group-only command before both).          *)

C9_AmendedStep ==
    \A op \in Transitions :
        Called(op) /\ WellFormed(last') /\ NamesEscrow(last') /\ ~ InOwnChat(last') =>
            /\ RowsUnchanged
            /\ hist' = hist
            /\ last'.outcome =
                  CASE op = "confirm" /\ ~ InGroup(last') -> "GroupOnly"
                    [] op = "confirm" /\ InGroup(last') /\ ~ AdminUser(last'.user) -> "Forbidden"
                    [] op = "completed" /\ ~ AdminUser(last'.user) -> "Forbidden"
                    [] OTHER -> "NotFound"

C9_OtherChatRejected == [][C9_AmendedStep]_vars

\* the admin marks complete, from another conversation, an escrow that could be completed
C9_Witness ==
    /\ last.op = "completed" /\ last.user = root /\ last.outcome = "NotFound"
    /\ NamesEscrow(last) /\ ~ InOwnChat(last)
    /\ escrows[ArgId(last)].status = "RECEIVED"

----------------------------------------------------------------------------
(* C10 as claimed: dispute on an existing escrow id succeeds and sets the  *)
(* status to DISPUTE for every caller, conversation and status; after it,  *)
(* every confirm-payment call on that escrow is rejected with InvalidState.*)

C10_DisputeStep ==
    Called("dispute") /\ NamesEscrow(last') =>
        /\ last'.outcome = "Success"
        /\ escrows'[ArgId(last')].status = "DISPUTE"

C10_ConfirmAfterDispute ==
    last.op = "confirm" /\ InOwnChat(last) /\ Held(ArgId(last), "DISPUTE") =>
        last.outcome = "InvalidState"

C10_DisputeThenInvalidState == [][C10_DisputeStep]_vars /\ [] C10_ConfirmAfterDispute

(* C10 as amended: dispute is as claimed; after it the status stays        *)
(* DISPUTE and no confirm-payment call on that escrow succeeds: in the     *)
(* escrow's conversation an admin's call is rejected with InvalidState and *)
(* anyone else's with Forbidden.                                           *)

C10_ConfirmAfterDisputeAmended ==
    /\ \A i \in DOMAIN escrows : Held(i, "DISPUTE") => escrows[i].status = "DISPUTE"
    /\ last.op = "confirm" /\ NamesEscrow(last) /\ Held(ArgId(last), "DISPUTE") =>
          last.outcome # "Success"
    /\ last.op = "confirm" /\ InOwnChat(last) /\ Held(ArgId(last), "DISPUTE") =>
          last.outcome = IF AdminUser(last.user) THEN "InvalidState" ELSE "Forbidden"

C10_DisputeThenRejected == [][C10_DisputeStep]_vars /\ [] C10_ConfirmAfterDisputeAmended

\* a PAID escrow was disputed and the admin's confirmation is rejected
C10_Witness ==
    /\ last.op = "confirm" /\ last.user = root /\ last.outcome = "InvalidState"
    /\ InOwnChat(last)
    /\ hist[ArgId(last)] = <<"INIT", "PAID", "DISPUTE">>

----------------------------------------------------------------------------
(* C11: the payout info of an escrow is written at most once: it changes   *)
(* only in a successful submit-payout on that escrow, which finds the      *)
(* escrow RECEIVED without payout info and leaves it PAYMENT_PROVIDED with *)
(* the non-empty text submitted; every other step, a second submit-payout  *)
(* and a mark-complete included, leaves the payout info as it is.          *)

\* the <address_or_info> text of a submit-payout update
Submitted(r) == Strip(JoinBlank(Tail(r.args)))

C11_PayoutStep ==
    \A i \in DOMAIN escrows :
        escrows'[i].seller_payment_info # escrows[i].seller_payment_info =>
            /\ Called("payment") /\ ArgId(last') = i /\ last'.outcome = "Success"
            /\ escrows[i].status = "RECEIVED" /\ escrows'[i].status = "PAYMENT_PROVIDED"
            /\ escrows[i].seller_payment_info = None
            /\ escrows'[i].seller_payment_info = Submitted(last')
            /\ Submitted(last') # <<>>

C11_PayoutOnce ==
    /\ [][C11_PayoutStep]_vars
    /\ [] (\A i \in DOMAIN escrows :
              ~ Held(i, "PAYMENT_PROVIDED") => escrows[i].seller_payment_info = None)

\* the seller's second submit-payout, with another text, is rejected and the
\* first text is still there
C11_Witness ==
    /\ last.op = "payment" /\ last.user = bob /\ last.outcome = "InvalidState"
    /\ InOwnChat(last) /\ Len(last.args) >= 2
    /\ escrows[ArgId(last)].status = "PAYMENT_PROVIDED"
    /\ escrows[ArgId(last)].seller_payment_info \in Infos \ {Submitted(last)}

----------------------------------------------------------------------------
(* C12: submit-payout succeeds only for the designated seller: a call on   *)
(* an escrow of the caller's conversation by a caller whose handle differs *)
(* from the seller's handle, compared without regard to case, is rejected  *)
(* with Forbidden and changes nothing, also when the caller is an admin or *)
(* the buyer and the escrow is RECEIVED.                                   *)

C12_SellerStep ==
    Called("payment") =>
        /\ last'.outcome = "Success" =>
              /\ NamesEscrow(last')
              /\ SameHandle(last'.user, escrows[ArgId(last')].seller_username)
        /\ /\ WellFormed(last') /\ InOwnChat(last')
           /\ ~ SameHandle(last'.user, escrows[ArgId(last')].seller_username)
           => /\ last'.outcome = "Forbidden"
              /\ RowsUnchanged
              /\ hist' = hist

C12_SellerOnly == [][C12_SellerStep]_vars

\* an admin and the buyer have each been refused on a RECEIVED escrow
C12_Witness ==
    /\ last.op = "payment" /\ last.user \in {root, alice} /\ last.outcome = "Forbidden"
    /\ InOwnChat(last)
    /\ escrows[ArgId(last)].status = "RECEIVED"
    /\ escrows[ArgId(last)].seller_payment_info = None

----------------------------------------------------------------------------
(* C13: mark-complete succeeds, and sets the status to COMPLETED, exactly  *)
(* when the caller is an admin, the escrow exists in the caller's          *)
(* conversation and its status is PAYMENT_PROVIDED or RECEIVED; a caller   *)
(* who is no admin, the buyer and the seller included, is rejected with    *)
(* Forbidden, an admin's call on any other status with InvalidState, and a *)
(* rejected call changes nothing.                                          *)

C13_CompleteStep ==
    Called("completed") =>
        LET r  == last'
            i  == ArgId(r)
            ok == /\ AdminUser(r.user) /\ WellFormed(r) /\ InOwnChat(r)
                  /\ escrows[i].status \in {"PAYMENT_PROVIDED", "RECEIVED"}
        IN  /\ (r.outcome = "Success") <=> ok
            /\ ok => /\ escrows' = [escrows EXCEPT ![i].status = "COMPLETED"]
                     /\ txlog' = txlog
            /\ ~ ok => RowsUnchanged /\ hist' = hist
            /\ ~ AdminUser(r.user) => r.outcome = "Forbidden"
            /\ /\ AdminUser(r.user) /\ WellFormed(r) /\ InOwnChat(r)
               /\ escrows[i].status \notin {"PAYMENT_PROVIDED", "RECEIVED"}
               => r.outcome = "InvalidState"

C13_CompleteIffAdmin == [][C13_CompleteStep]_vars

\* the admin has completed an escrow that was RECEIVED and had no payout info
C13_Witness ==
    /\ last.op = "completed" /\ last.user = root /\ last.outcome = "Success"
    /\ hist[ArgId(last)] = <<"INIT", "PAID", "CONFIRMED", "RECEIVED", "COMPLETED">>
    /\ escrows[ArgId(last)].status = "COMPLETED"

----------------------------------------------------------------------------
(* C14: the happy path can be walked: a create in a group, then            *)
(* report-payment by the buyer, confirm-payment by an admin,               *)
(* confirm-receipt by the buyer, submit-payout by the seller with a        *)
(* non-empty text and mark-complete by an admin each succeed on the escrow *)
(* in the status the step before left, taking it through INIT, PAID,       *)
(* CONFIRMED, RECEIVED, PAYMENT_PROVIDED, COMPLETED; at the end the escrow *)
(* has one log entry and the payout info is the text submitted.            *)

\* the caller of each step of the path
C14_Actor(r) ==
    LET e == escrows[ArgId(r)]
    IN  CASE r.op \in {"paid", "received"} -> SameHandle(r.user, e.buyer_username)
          [] r.op \in {"confirm", "completed"} -> AdminUser(r.user)
          [] r.op = "payment" -> SameHandle(r.user, e.seller_username)
          [] OTHER -> FALSE

C14_PathStep ==
    /\ /\ Called("escrow") /\ InGroup(last') /\ Len(last'.args) = 3
       /\ last'.args[3] = <<"$", "1", "2">>
       => /\ last'.outcome = "Success"
          /\ Len(escrows') = Len(escrows) + 1
          /\ escrows'[Len(escrows')].status = "INIT"
          /\ escrows'[Len(escrows')].seller_payment_info = None
          /\ hist'[Len(escrows')] = <<"INIT">>
    /\ \A op \in Transitions :
          /\ Called(op) /\ WellFormed(last') /\ InOwnChat(last') /\ C14_Actor(last')
          /\ hist[ArgId(last')] = SubSeq(Chain, 1, Rank(Target(op)) - 1)
          => /\ last'.outcome = "Success"
             /\ escrows'[ArgId(last')].status = Target(op)
             /\ hist'[ArgId(last')] = SubSeq(Chain, 1, Rank(Target(op)))
             /\ op = "payment" =>
                   /\ Submitted(last') # <<>>
                   /\ escrows'[ArgId(last')].seller_payment_info = Submitted(last')

C14_PathEnd ==
    \A i \in DOMAIN escrows :
        hist[i] = Chain =>
            /\ escrows[i].status = "COMPLETED"
            /\ LogCount(txlog, i) = 1
            /\ escrows[i].seller_payment_info \in Infos

C14_HappyPath == [][C14_PathStep]_vars /\ [] C14_PathEnd

\* the admin's mark-complete has ended the path of an escrow
C14_Witness ==
    /\ last.op = "completed" /\ last.user = root /\ last.outcome = "Success"
    /\ hist[ArgId(last)] = Chain
    /\ LogCount(txlog, ArgId(last)) = 1
    /\ escrows[ArgId(last)].seller_payment_info = <<"T", "q">>

----------------------------------------------------------------------------
(* C17: after an escrow is created its id, conversation id, buyer and      *)
(* seller handles and account ids, amount and currency never change, and   *)
(* no operation removes an escrow record, a COMPLETED one included.        *)

\* the fields of an escrow fixed at creation
Identity(e) ==
    [id |-> e.id, group_id |-> e.group_id,
     buyer_username |-> e.buyer_username, buyer_id |-> e.buyer_id,
     seller_username |-> e.seller_username, seller_id |-> e.seller_id,
     amount |-> e.amount, currency |-> e.currency]

C17_FrameStep ==
    \A i \in DOMAIN escrows :
        /\ i \in DOMAIN escrows'
        /\ Identity(escrows'[i]) = Identity(escrows[i])

C17_IdentityFixed ==
    /\ [][C17_FrameStep]_vars
    /\ [] (\A i \in DOMAIN escrows : escrows[i].id = i)

\* an escrow went down the whole path and was disputed after its completion:
\* the record is there, with the identity it was created with
C17_Witness ==
    \E i \in DOMAIN escrows :
        /\ hist[i] = Append(Chain, "DISPUTE")
        /\ escrows[i].id = i
        /\ escrows[i].group_id \in {Str(G1.id), Str(G2.id)}
        /\ escrows[i].buyer_username = <<"a">> /\ escrows[i].seller_username = <<"B">>
        /\ last = Idle

----------------------------------------------------------------------------
(* C15 as claimed: a create followed at once by a summarize of the new id  *)
(* shows status INIT, no payout info, and exactly the amount and the       *)
(* currency handed to create: the amount kept for the escrow is equal, as  *)
(* a number, to the amount of the token, whatever its decimals.            *)

\* d1 = d2 as numbers
NumEq(d1, d2) ==
    /\ d1.kind = d2.kind
    /\ IF d1.kind # "num" THEN d1.coef = d2.coef
       ELSE IF d1.exp >= d2.exp THEN d1.coef = d2.coef * Pow10(d1.exp - d2.exp)
       ELSE d2.coef = d1.coef * Pow10(d2.exp - d1.exp)

\* the amount and currency an /escrow update supplies
Supplied(r) == parse_amount_token(Strip(JoinBlank(Drop(r.args, 2))))

C15_CreateStep ==
    Called("escrow") /\ last'.outcome = "Success" =>
        LET e == escrows'[Len(escrows')]
        IN  /\ Len(escrows') = Len(escrows) + 1
            /\ e.status = "INIT"
            /\ e.seller_payment_info = None
            /\ NumEq(e.amount, Supplied(last').amount)
            /\ e.currency = Supplied(last').currency

C15_Summary ==
    last.op = "status" /\ last.outcome = "Success" =>
        LET e == escrows[ArgId(last)]
            v == last.view[1]
        IN  /\ v.id = ArgId(last)
            /\ v.status = e.status
            /\ v.amount = e.amount
            /\ v.currency = e.currency
            /\ e.seller_payment_info = None => v.seller_payment_info = <<"N", "/", "A">>

C15_RoundTrip == [][C15_CreateStep]_vars /\ [] C15_Summary

----------------------------------------------------------------------------
(* C16 as claimed: every escrow that exists has an amount that is a number *)
(* greater than zero: no create persists an escrow for a token that        *)
(* denotes zero, a negative number or no number, '$'-prefixed or plain.    *)

C16_AmountPositive ==
    \A i \in DOMAIN escrows :
        escrows[i].amount.kind = "num" /\ escrows[i].amount.coef > 0

----------------------------------------------------------------------------
(* C18 as claimed: when the write of the log entry fails after             *)
(* report-payment has committed the status PAID, the status stays PAID,    *)
(* the report goes to the group and the caller gets the acknowledgement:   *)
(* the outcome is the success outcome and no error reaches the caller.     *)

\* the handler committed the status and its commit of the log entry raised
LogWriteFailed(r) == r.commits = <<TRUE, FALSE>>

C18_LogFailStep ==
    Called("paid") /\ LogWriteFailed(last') =>
        /\ escrows'[ArgId(last')].status = "PAID"
        /\ last'.outcome = "Success"
        /\ \E n \in DOMAIN last'.sent : last'.sent[n].text = "Payment reported"

C18_LogFailureTolerated == [][C18_LogFailStep]_vars

----------------------------------------------------------------------------
(* C19: in a report-payment or submit-payout that the store carries out,   *)
(* a get_chat lookup that fails for an admin neither aborts nor undoes the *)
(* transition: whatever the lookups give, the new status (and for          *)
(* report-payment the log entry) is committed, the caller gets the success *)
(* outcome, a lookup was made for every admin, and the notification        *)
(* mentions every admin, with the label "Admin" for each admin whose       *)
(* lookup failed.                                                          *)

\* every commit of the handler went through
StoreWorked(r) == r.commits # <<>> /\ \A k \in DOMAIN r.commits : r.commits[k]

GenericLabel == <<"A", "d", "m", "i", "n">>

C19_LookupStep ==
    \A op \in {"paid", "payment"} :
        /\ Called(op) /\ WellFormed(last') /\ InOwnChat(last') /\ Authorized(last')
        /\ escrows[ArgId(last')].status \in Predecessors(op)
        /\ StoreWorked(last')
        => LET r == last'
               i == ArgId(r)
           IN  /\ r.outcome = "Success"
               /\ escrows'[i].status = Target(op)
               /\ op = "paid" => LogCount(txlog', i) = LogCount(txlog, i) + 1
               /\ Len(r.lookups) = Len(ADMIN_IDS)
               /\ \A k \in DOMAIN r.lookups : r.lookups[k].aid = ADMIN_IDS[k]
               /\ r.sent # <<>>
               /\ Len(r.sent[1].mentions) = Len(ADMIN_IDS)
               /\ \A k \in DOMAIN ADMIN_IDS :
                     /\ r.sent[1].mentions[k].aid = ADMIN_IDS[k]
                     /\ ~ r.lookups[k].ok => r.sent[1].mentions[k].label = GenericLabel

C19_LookupBestEffort == [][C19_LookupStep]_vars

\* report-payment went through although the lookup of the first admin failed:
\* the report mentions that admin as "Admin", and the second lookup was made
C19_Witness ==
    /\ last.op = "paid" /\ last.outcome = "Success"
    /\ Len(last.lookups) = 2 /\ ~ last.lookups[1].ok /\ last.lookups[2].ok
    /\ escrows[ArgId(last)].status = "PAID" /\ LogCount(txlog, ArgId(last)) = 1
    /\ last.sent[1].mentions[1] = [label |-> GenericLabel, aid |-> ADMIN_IDS[1]]

----------------------------------------------------------------------------
(* C20 as claimed: when the store fails in the commit of the status update *)
(* of a transition, the caller gets a StoreUnavailable rejection: not the  *)
(* success outcome, not a Forbidden, NotFound or InvalidState rejection,   *)
(* and not nothing at all.                                                 *)

\* the first commit of the handler, the one of the status update, raised
StatusCommitFailed(r) == r.commits # <<>> /\ ~ r.commits[1]

C20_CommitFailStep ==
    \A op \in Transitions :
        Called(op) /\ StatusCommitFailed(last') =>
            /\ last'.outcome \notin {"Success", "Forbidden", "NotFound", "InvalidState"}
            /\ last'.outcome # "Raised"

C20_StoreFailureSurfaced == [][C20_CommitFailStep]_vars

----------------------------------------------------------------------------
(* C21: summarize is read-only and open to everyone: whoever calls it,     *)
(* from whatever conversation, for the id of an existing escrow it shows   *)
(* the current record (status, amount, currency, buyer, seller, payout     *)
(* info), for a number that names no escrow it answers NotFound, and it    *)
(* never changes an escrow or the log.                                     *)

C21_SummaryStep ==
    Called("status") =>
        /\ RowsUnchanged
        /\ hist' = hist
        /\ WellFormed(last') /\ IntParse(last'.args[1]).ok =>
              IF NamesEscrow(last')
              THEN LET e == escrows[ArgId(last')]
                       v == last'.view[1]
                   IN  /\ last'.outcome = "Success"
                       /\ v.id = e.id /\ v.status = e.status
                       /\ v.amount = e.amount /\ v.currency = OrEmpty(e.currency)
                       /\ v.buyer_username = e.buyer_username
                       /\ v.seller_username = e.seller_username
                       /\ e.seller_payment_info # None =>
                              v.seller_payment_info = e.seller_payment_info
              ELSE last'.outcome = "NotFound"

C21_SummaryReadOnly == [][C21_SummaryStep]_vars

\* someone with no role, from a conversation that is not the escrow's, is
\* shown an escrow with its payout info
C21_Witness ==
    /\ last.op = "status" /\ last.user = anon /\ last.outcome = "Success"
    /\ NamesEscrow(last) /\ ~ InOwnChat(last)
    /\ last.view[1].status = "PAYMENT_PROVIDED"
    /\ last.view[1].seller_payment_info \in Infos

----------------------------------------------------------------------------
(* C22: the log is append-only and only report-payment writes it: in every *)
(* step the entries there stay as they are, and the log grows only in a    *)
(* successful report-payment, by one entry; create, confirm-payment,       *)
(* confirm-receipt, submit-payout, mark-complete, dispute, summarize and   *)
(* every rejected call leave the log as it is.                             *)

C22_LogStep ==
    /\ Len(txlog') >= Len(txlog)
    /\ SubSeq(txlog', 1, Len(txlog)) = txlog
    /\ txlog' # txlog =>
          /\ Called("paid") /\ last'.outcome = "Success"
          /\ Len(txlog') = Len(txlog) + 1
    /\ last'.op # "paid" \/ last'.outcome # "Success" => txlog' = txlog

C22_LogAppendOnly == [][C22_LogStep]_vars

\* an escrow with a log entry was completed and then disputed: the entry is there
C22_Witness ==
    \E i \in DOMAIN escrows :
        /\ Held(i, "COMPLETED") /\ escrows[i].status = "DISPUTE"
        /\ LogCount(txlog, i) = 1
        /\ last.op = "dispute" /\ last.outcome = "Success"

----------------------------------------------------------------------------
(* C23 as claimed: confirm-payment, confirm-receipt, submit-payout and     *)
(* mark-complete look the escrow up first, then authorize, then test the   *)
(* status: a well-formed call naming an id that is no escrow of the        *)
(* caller's conversation is rejected with NotFound whoever calls, and      *)
(* Forbidden is the answer only for an escrow that was found.              *)

CheckedOps == {"confirm", "received", "payment", "completed"}

C23_OrderStep ==
    \A op \in CheckedOps :
        Called(op) /\ InGroup(last') =>
            /\ WellFormed(last') /\ IntParse(last'.args[1]).ok /\ ~ InOwnChat(last') =>
                  last'.outcome = "NotFound"
            /\ last'.outcome = "Forbidden" => InOwnChat(last')

C23_LookupFirst == [][C23_OrderStep]_vars

(* C23 as amended: confirm-receipt and submit-payout look the escrow up    *)
(* first, then authorize, then test the status.  confirm-payment and       *)
(* mark-complete test the admin role before the lookup: anyone who is no   *)
(* admin gets Forbidden whatever id the call names, and an admin gets      *)
(* NotFound for an id that is no escrow of the conversation and            *)
(* InvalidState for an escrow found in another status.                     *)

C23_AmendedStep ==
    /\ \A op \in {"received", "payment"} :
          Called(op) /\ WellFormed(last') /\ IntParse(last'.args[1]).ok =>
              /\ ~ InOwnChat(last') => last'.outcome = "NotFound"
              /\ InOwnChat(last') /\ ~ Authorized(last') => last'.outcome = "Forbidden"
              /\ /\ InOwnChat(last') /\ Authorized(last')
                 /\ escrows[ArgId(last')].status \notin Predecessors(op)
                 => last'.outcome = "InvalidState"
              /\ last'.outcome = "Forbidden" => InOwnChat(last')
    /\ \A op \in {"confirm", "completed"} :
          Called(op) /\ (op = "confirm" => InGroup(last')) =>
              /\ ~ AdminUser(last'.user) => last'.outcome = "Forbidden"
              /\ AdminUser(last'.user) /\ WellFormed(last') /\ IntParse(last'.args[1]).ok =>
                    /\ ~ InOwnChat(last') => last'.outcome = "NotFound"
                    /\ /\ InOwnChat(last')
                       /\ escrows[ArgId(last')].status \notin Predecessors(op)
                       => last'.outcome = "InvalidState"
    /\ \A op \in CheckedOps :
          Called(op) /\ last'.outcome # "Success" => RowsUnchanged /\ hist' = hist

C23_CheckOrder == [][C23_AmendedStep]_vars

\* a caller who is no admin asks to complete an id that names no escrow and is
\* told that only admins may, not that the escrow is not found
C23_Witness ==
    /\ last.op = "completed" /\ last.user = bob /\ last.outcome = "Forbidden"
    /\ InGroup(last) /\ WellFormed(last) /\ IntParse(last.args[1]).ok
    /\ ~ NamesEscrow(last)
    /\ escrows # <<>>

----------------------------------------------------------------------------
(* C24 as claimed: a dispute that has committed the status DISPUTE makes   *)
(* an attempt to notify every configured admin, whether or not the earlier *)
(* attempts are delivered and whether or not the reply that names the      *)
(* arbitration contact is, and the status stays DISPUTE.                   *)

\* the messages of a handler addressed to the admin aid
AttemptsTo(r, aid) == {n \in DOMAIN r.sent : r.sent[n].to = Str(aid)}

C24_NotifyStep ==
    Called("dispute") /\ StoreWorked(last') =>
        /\ escrows'[ArgId(last')].status = "DISPUTE"
        /\ \A k \in DOMAIN ADMIN_IDS : AttemptsTo(last', ADMIN_IDS[k]) # {}

C24_AllAdminsNotified == [][C24_NotifyStep]_vars

----------------------------------------------------------------------------
(* C25: DISPUTE is absorbing: once the status of an escrow is DISPUTE no   *)
(* step changes the escrow any more, whichever handler runs and whatever   *)
(* status the escrow had before the dispute; a report-payment,             *)
(* confirm-payment, confirm-receipt, submit-payout or mark-complete on it  *)
(* does not succeed, and a second dispute succeeds and leaves the escrow   *)
(* exactly as the first did.  (A handler reads the status and commits with *)
(* no await in between, so no handler holds a status read before another   *)
(* handler's commit.)                                                      *)

C25_AbsorbStep ==
    /\ \A i \in DOMAIN escrows :
          escrows[i].status = "DISPUTE" =>
              /\ escrows'[i] = escrows[i]
              /\ hist'[i] = hist[i]
    /\ \A op \in Transitions :
          Called(op) /\ NamesEscrow(last') /\ escrows[ArgId(last')].status = "DISPUTE" =>
              last'.outcome # "Success"
    /\ Called("dispute") /\ NamesEscrow(last') /\ escrows[ArgId(last')].status = "DISPUTE" =>
          /\ last'.outcome = "Success"
          /\ RowsUnchanged
          /\ hist' = hist

C25_DisputeAbsorbing == [][C25_AbsorbStep]_vars

\* the seller's payout info is refused on an escrow disputed while RECEIVED
C25_Witness ==
    /\ last.op = "payment" /\ last.user = bob /\ last.outcome = "InvalidState"
    /\ InOwnChat(last) /\ Len(last.args) >= 2
    /\ hist[ArgId(last)] = <<"INIT", "PAID", "CONFIRMED", "RECEIVED", "DISPUTE">>
    /\ escrows[ArgId(last)].seller_payment_info = None

----------------------------------------------------------------------------
(* C26: in every state an escrow that has payout info is PAYMENT_PROVIDED, *)
(* COMPLETED or DISPUTE: an escrow in INIT, PAID, CONFIRMED or RECEIVED    *)
(* has none.                                                               *)

C26_PayoutImpliesStatus ==
    \A i \in DOMAIN escrows :
        escrows[i].seller_payment_info # None =>
            escrows[i].status \in {"PAYMENT_PROVIDED", "COMPLETED", "DISPUTE"}

\* an escrow with payout info has been completed
C26_Witness ==
    \E i \in DOMAIN escrows :
        /\ escrows[i].seller_payment_info \in Infos
        /\ escrows[i].status = "COMPLETED"
        /\ last = Idle

----------------------------------------------------------------------------
(* C27: an escrow is COMPLETED only after it was INIT, PAID, CONFIRMED and *)
(* RECEIVED, in that order (and PAYMENT_PROVIDED after that, or not); the  *)
(* status CONFIRMED is only set by an admin's call and RECEIVED only by a  *)
(* call of the buyer or an admin; an escrow that was ever in DISPUTE is    *)
(* not COMPLETED afterwards.                                               *)

C27_CompletedHistory ==
    \A i \in DOMAIN escrows :
        /\ escrows[i].status = "COMPLETED" =>
              hist[i] \in {Chain, <<"INIT", "PAID", "CONFIRMED", "RECEIVED", "COMPLETED">>}
        /\ Held(i, "DISPUTE") => escrows[i].status # "COMPLETED"

C27_AttestStep ==
    \A i \in DOMAIN escrows :
        /\ escrows[i].status # "CONFIRMED" /\ escrows'[i].status = "CONFIRMED" =>
              Called("confirm") /\ ArgId(last') = i /\ AdminUser(last'.user)
        /\ escrows[i].status # "RECEIVED" /\ escrows'[i].status = "RECEIVED" =>
              /\ Called("received") /\ ArgId(last') = i
              /\ SameHandle(last'.user, escrows[i].buyer_username) \/ AdminUser(last'.user)

C27_CompletedOnlyAfterChain == [] C27_CompletedHistory /\ [][C27_AttestStep]_vars

\* a summary shows an escrow COMPLETED at the end of the whole chain
C27_Witness ==
    /\ last.op = "status" /\ last.outcome = "Success"
    /\ last.view[1].status = "COMPLETED"
    /\ hist[ArgId(last)] = Chain

----------------------------------------------------------------------------
(* C30: the log entry a successful report-payment appends has the id, the  *)
(* conversation id, the buyer handle, the seller handle, the amount and    *)
(* the currency of the escrow, whoever made the call: when an admin who is *)
(* not the buyer reports the payment the entry names the escrow's buyer.   *)

C30_EntryStep ==
    Called("paid") /\ last'.outcome = "Success" =>
        LET e == escrows[ArgId(last')]
            t == txlog'[Len(txlog')]
        IN  /\ Len(txlog') = Len(txlog) + 1
            /\ t.escrow_id = e.id
            /\ t.group_id = e.group_id
            /\ t.buyer_username = e.buyer_username
            /\ t.seller_username = e.seller_username
            /\ t.amount = e.amount
            /\ t.currency = e.currency

C30_EntryNamesEscrow == [][C30_EntryStep]_vars

\* the admin, whose handle is not the buyer's, reported the payment
C30_Witness ==
    /\ last.op = "paid" /\ last.user = root /\ last.outcome = "Success"
    /\ ~ SameHandle(root, escrows[ArgId(last)].buyer_username)
    /\ txlog[Len(txlog)].escrow_id = ArgId(last)
    /\ txlog[Len(txlog)].buyer_username = <<"a">>

----------------------------------------------------------------------------
(* C28 as claimed: a caller who has no username and is no admin is never   *)
(* taken for the buyer in report-payment or confirm-receipt, nor for the   *)
(* seller in submit-payout: no such call of his succeeds, on any escrow    *)
(* that create can produce, the escrows created with "@" alone for the     *)
(* buyer or the seller included.                                           *)

C28_NoHandleStep ==
    \A op \in {"paid", "received", "payment"} :
        Called(op) /\ last'.user.username = None /\ ~ AdminUser(last'.user) =>
            /\ last'.outcome # "Success"
            /\ RowsUnchanged

C28_NoHandleNoRole == [][C28_NoHandleStep]_vars

----------------------------------------------------------------------------
(* C29: operations on different escrows are independent.  A call that      *)
(* names escrow A, successful or rejected, leaves every other escrow B,    *)
(* B's history and B's log entries exactly as they are; its outcome and    *)
(* what it makes of A are determined by the call and the record of A       *)
(* alone.  So two calls on different escrows give the same outcomes and    *)
(* the same escrows in either order.                                       *)

\* the log entries of escrow i
EntriesOf(log, i) == {log[k] : k \in {n \in DOMAIN log : log[n].escrow_id = i}}

Numeric(r) == r.args # <<>> /\ IntParse(r.args[1]).ok

\* the outcome of a call, from the call and the record it names
ExpectedOutcome(r) ==
    LET e == escrows[ArgId(r)]
        tail == IF ~ Numeric(r) \/ ~ WellFormed(r) THEN "InvalidInput"
                ELSE IF ~ InOwnChat(r) THEN "NotFound"
                ELSE IF e.status \notin Predecessors(r.op) THEN "InvalidState"
                ELSE "Success"
    IN  CASE r.op \in {"status", "dispute"} ->
                IF ~ Numeric(r) THEN "InvalidInput"
                ELSE IF ~ NamesEscrow(r) THEN "NotFound" ELSE "Success"
          [] r.op = "confirm" ->
                IF ~ InGroup(r) THEN "GroupOnly"
                ELSE IF ~ AdminUser(r.user) THEN "Forbidden" ELSE tail
          [] r.op = "completed" ->
                IF ~ AdminUser(r.user) THEN "Forbidden" ELSE tail
          [] OTHER ->
                IF ~ Numeric(r) \/ ~ WellFormed(r) THEN "InvalidInput"
                ELSE IF ~ InOwnChat(r) THEN "NotFound"
                ELSE IF ~ Authorized(r) THEN "Forbidden"
                ELSE tail

\* the record the call leaves of the escrow it names
ExpectedRow(r) ==
    LET e == escrows[ArgId(r)]
    IN  IF ExpectedOutcome(r) # "Success" \/ r.op = "status" THEN e
        ELSE IF r.op = "payment"
        THEN [e EXCEPT !.status = "PAYMENT_PROVIDED", !.seller_payment_info = Submitted(r)]
        ELSE [e EXCEPT !.status = Target(r.op)]

C29_IndependentStep ==
    last = Idle /\ last' # Idle =>
        LET r == last'
            A == ArgId(r)
        IN  /\ DOMAIN escrows' = DOMAIN escrows
            /\ r.outcome = ExpectedOutcome(r)
            /\ NamesEscrow(r) => escrows'[A] = ExpectedRow(r)
            /\ \A B \in DOMAIN escrows \ {A} :
                  /\ escrows'[B] = escrows[B]
                  /\ hist'[B] = hist[B]
                  /\ EntriesOf(txlog', B) = EntriesOf(txlog, B)

C29_Independent == [][C29_IndependentStep]_vars

\* the first escrow was disputed at once and the second went down the whole
\* path, each with the history and the log entries of its own calls
C29_Witness ==
    /\ Len(escrows) = 2
    /\ hist[1] = <<"INIT", "DISPUTE">> /\ LogCount(txlog, 1) = 0
    /\ hist[2] = Chain /\ LogCount(txlog, 2) = 1
    /\ escrows[1].seller_payment_info = None
    /\ escrows[2].seller_payment_info \in Infos

----------------------------------------------------------------------------
(* main.py: the states stored and the release and dispute callbacks *)

\* a callback query with that data is handled in this step
Pressed(data) ==
    last = Idle /\ last' # Idle /\ last'.op \notin {"start", "create", "status"}
        /\ last'.args = <<data>>

C31_StatesStored ==
    \A i \in DOMAIN escrows :
        escrows[i].state \in
            {EscrowState.CREATED, EscrowState.COMPLETED, EscrowState.DISPUTED}

C31_CallbackStep ==
    \A n \in DOMAIN escrows :
        /\ Pressed(RELEASE_ \o Str(n)) =>
              /\ escrows' = [escrows EXCEPT ![n].state = EscrowState.COMPLETED]
              /\ last'.outcome = "Completed"
        /\ Pressed(DISPUTE_ \o Str(n)) =>
              /\ escrows' = [escrows EXCEPT ![n].state = EscrowState.DISPUTED]
              /\ last'.outcome = "DisputeOpened"

====
